---- MODULE Spec2Model ----
(***************************************************************************)
(* Model of exif-ai: the per-image pipeline (pipeline.rs, process_image)   *)
(* and the format-aware metadata writer (exif/writer.rs, write_exif) over  *)
(* a small file system.  File contents are modelled by the metadata blocks *)
(* they hold (EXIF, XMP, IPTC); a field value is "None" (tag absent),      *)
(* "orig" (a value the file held before any run), "blank" (tag present     *)
(* with an empty string) or one of the values an AI backend returned.      *)
(***************************************************************************)
EXTENDS Integers, Sequences, FiniteSets, TLC

\* ------------------------------------------------------------------ bounds
\* Longest AI failover chain explored by the pipeline specification.
MaxServices == 2

\* ------------------------------------------------------------- value domain
None == "None"
Orig == "orig"
Blank == "blank"
AiVal == "ai"

\* ------------------------------------------------------ ImageKind::from_path
Jpeg == "Jpeg"
Png == "Png"
WebP == "WebP"
Tiff == "Tiff"
Sidecar == "Sidecar"
NoKind == "NoKind"

\* str::to_lowercase on the extensions the model uses
to_lowercase(ext) ==
    CASE ext = "JPG" -> "jpg"
      [] ext = "HEIC" -> "heic"
      [] ext = "CR3" -> "cr3"
      [] ext = "Tiff" -> "tiff"
      [] OTHER -> ext

\* pipeline.rs ImageKind::from_path; "" stands for a path without extension
from_path(ext) ==
    IF ext = "" THEN NoKind
    ELSE LET e == to_lowercase(ext) IN
         CASE e \in {"jpg", "jpeg"} -> Jpeg
           [] e = "png" -> Png
           [] e = "webp" -> WebP
           [] e \in {"tif", "tiff"} -> Tiff
           [] e \in {"heic", "heif", "avif", "cr3", "cr2", "dng", "nef",
                     "arw", "raf", "orf", "rw2", "pef", "srw"} -> Sidecar
           [] OTHER -> NoKind

\* The set the specification names as sidecar-only formats.
SidecarExts == {"cr3", "cr2", "dng", "nef", "arw", "raf", "orf", "rw2", "pef",
                "srw", "heic", "heif", "avif"}

\* ------------------------------------------------------------------- paths
\* A path is a tuple <<stem, ext>>; a backup path is <<stem, ext, "bak">>.
Stem == "photo"
ImagePath(ext) == <<Stem, ext>>

\* A sidecar named by appending ".xmp" to the full file name instead.
SidecarPathAppended(path) == <<path[1], path[2], "xmp">>

\* Path::with_extension("xmp") in write_sidecar_xmp: the extension is replaced
SidecarPath(path) == <<path[1], "xmp">>

\* backup_file: path.with_extension(format!("{ext}.bak"))
BackupPath(path) == <<path[1], path[2], "bak">>

\* ------------------------------------------------------------ file contents
NoExif ==
    [present |-> FALSE, wellFormed |-> TRUE, exifIfd |-> FALSE,
     imageDescription |-> None, xpTitle |-> None,
     userComment |-> None, xpComment |-> None,
     xpKeywords |-> None, xpSubject |-> None, gps |-> {}]

NoXmp ==
    [present |-> FALSE, title |-> None, headline |-> None,
     description |-> None, subject |-> None, other |-> FALSE]

NoIptc ==
    [present |-> FALSE, objectName |-> None, caption |-> None,
     keywords |-> None, otherIim |-> FALSE, otherRes |-> FALSE]

\* state: "ok" a well-formed container, "corrupt" a file the container
\* parser rejects, "partial" a file left behind by an interrupted
\* std::fs::write, "nofile" no file at that path.
MkFile(state, exif, xmp, iptc) ==
    [state |-> state, exif |-> exif, xmp |-> xmp, iptc |-> iptc]

NoFile == MkFile("nofile", NoExif, NoXmp, NoIptc)
PartialFile == MkFile("partial", NoExif, NoXmp, NoIptc)
CorruptFile == MkFile("corrupt", NoExif, NoXmp, NoIptc)
BareFile == MkFile("ok", NoExif, NoXmp, NoIptc)

\* ------------------------------------------------------------ exif/reader.rs
DefaultExifData ==
    [title |-> None, description |-> None, keywords |-> None,
     subject |-> None, has_gps |-> FALSE]

\* entry_to_string / decode_xp_string followed by normalize: an empty string
\* becomes absent
normalize(v) == IF v = Blank THEN None ELSE v

\* decode_user_comment(val).or_else(|| entry_to_string(val)): a comment with
\* an unknown charset prefix ("junk") or with an empty ASCII payload falls
\* through to the display string of the UNDEFINED entry, which is not empty
read_user_comment(v) ==
    CASE v = None -> None
      [] v \in {"junk", Blank} -> "undef"
      [] OTHER -> v

\* read_exif: the EXIF block of the file as the writer will see it
read_exif(file) ==
    IF file.state # "ok" \/ ~file.exif.present \/ ~file.exif.wellFormed
    THEN DefaultExifData
    ELSE LET e == file.exif
             t1 == normalize(e.imageDescription)
             d1 == read_user_comment(e.userComment)
         IN [title |-> IF t1 # None THEN t1 ELSE normalize(e.xpTitle),
             description |-> IF d1 # None THEN d1 ELSE normalize(e.xpComment),
             keywords |-> normalize(e.xpKeywords),
             subject |-> normalize(e.xpSubject),
             has_gps |-> e.gps # {}]

\* ------------------------------------------------- write_exif: the decision
\* tags.join("; ") of an AI list: the empty list joins to the empty string
join(list) == IF list = "empty" THEN Blank ELSE list

Append1(s, cond, x) == IF cond THEN Append(s, x) ELSE s

\* The written flags and skipped_fields of write_exif (writer.rs 189-271).
title_written(ai, existing, fields) ==
    fields.write_title /\ ai.title # None
    /\ (existing.title = None \/ fields.overwrite_existing)

description_written(ai, existing, fields) ==
    fields.write_description /\ ai.description # None
    /\ (existing.description = None \/ fields.overwrite_existing)

tags_written(ai, existing, fields) ==
    fields.write_tags /\ ai.tags # None
    /\ (existing.keywords = None \/ fields.overwrite_existing)

subject_written(ai, existing, fields) ==
    fields.write_subject /\ ai.subject # None
    /\ ai.subject # "empty"
    /\ (existing.subject = None \/ fields.overwrite_existing)

gps_written(ai, existing, fields) ==
    fields.write_gps /\ ai.gps # None /\ ~existing.has_gps

skipped_fields(ai, existing, fields) ==
    LET s1 == Append1(<<>>, fields.write_title /\ ai.title # None
                            /\ ~title_written(ai, existing, fields),
                      "title (existing)")
        s2 == Append1(s1, fields.write_description /\ ai.description # None
                          /\ ~description_written(ai, existing, fields),
                      "description (existing)")
        s3 == Append1(s2, fields.write_tags /\ ai.tags # None
                          /\ ~tags_written(ai, existing, fields),
                      "tags (existing)")
        s4 == Append1(s3, fields.write_subject /\ ai.subject # None
                          /\ ai.subject # "empty"
                          /\ ~subject_written(ai, existing, fields),
                      "subject (existing)")
    IN Append1(s4, fields.write_gps /\ ai.gps # None /\ existing.has_gps,
               "gps (existing coordinates)")

WriteResult(ai, existing, fields) ==
    [title_written |-> title_written(ai, existing, fields),
     description_written |-> description_written(ai, existing, fields),
     tags_written |-> tags_written(ai, existing, fields),
     subject_written |-> subject_written(ai, existing, fields),
     gps_written |-> gps_written(ai, existing, fields),
     skipped_fields |-> skipped_fields(ai, existing, fields),
     sidecar_path |-> <<>>]

\* new_tags is empty exactly when no field was collected
new_tags_empty(ai, existing, fields) ==
    ~(title_written(ai, existing, fields)
      \/ description_written(ai, existing, fields)
      \/ tags_written(ai, existing, fields)
      \/ subject_written(ai, existing, fields)
      \/ gps_written(ai, existing, fields))

\* ------------------------------------------------------ XMP / IPTC builders
\* The (title, description, keywords) arguments every XMP/IPTC writer filters
\* out of the AI result (writer.rs 416-420, 567-580, 805-818).
xmp_title(ai, existing, fields) ==
    IF title_written(ai, existing, fields) THEN ai.title ELSE None

xmp_description(ai, existing, fields) ==
    IF description_written(ai, existing, fields) THEN ai.description ELSE None

xmp_keywords(ai, existing, fields) ==
    IF tags_written(ai, existing, fields) THEN ai.tags ELSE None

\* build_xmp(None, ..): a fresh packet holding only the given fields
build_xmp_fresh(t, d, kw) ==
    [present |-> TRUE, title |-> t, headline |-> t, description |-> d,
     subject |-> IF kw = None THEN None ELSE join(kw), other |-> FALSE]

\* inject_into_existing_xmp: the given elements replace their namesakes, every
\* other property of the packet stays
inject_into_existing_xmp(x, t, d, kw) ==
    [present |-> TRUE,
     title |-> IF t # None THEN t ELSE x.title,
     headline |-> IF t # None THEN t ELSE x.headline,
     description |-> IF d # None THEN d ELSE x.description,
     subject |-> IF kw # None THEN join(kw) ELSE x.subject,
     other |-> x.other]

build_xmp(x, t, d, kw) ==
    IF x.present THEN inject_into_existing_xmp(x, t, d, kw)
    ELSE build_xmp_fresh(t, d, kw)

\* update_xmp_metadata: nothing happens when no text field is written
update_xmp_metadata(x, ai, existing, fields) ==
    LET t == xmp_title(ai, existing, fields)
        d == xmp_description(ai, existing, fields)
        kw == xmp_keywords(ai, existing, fields)
    IN IF t = None /\ d = None /\ kw = None THEN x ELSE build_xmp(x, t, d, kw)

\* build_iptc_contents: foreign 8BIM resources are copied, the 0x0404 resource
\* is emitted anew from the given fields only (an empty keyword list emits no
\* 2:25 record)
build_iptc_contents(i, t, d, kw) ==
    [present |-> TRUE, objectName |-> t, caption |-> d,
     keywords |-> IF kw = None \/ kw = "empty" THEN None ELSE kw,
     otherIim |-> FALSE, otherRes |-> i.otherRes]

update_iptc_metadata(i, ai, existing, fields) ==
    LET t == xmp_title(ai, existing, fields)
        d == xmp_description(ai, existing, fields)
        kw == xmp_keywords(ai, existing, fields)
    IN IF t = None /\ d = None /\ kw = None THEN i
       ELSE build_iptc_contents(i, t, d, kw)

\* ------------------------------------------------------------ EXIF builders
\* The new tags laid over an EXIF block.  withComment: whether UserComment
\* reaches the block; gpsOut: the GPS IFD of the result.
overlay_exif(e, ai, existing, fields, withComment, gpsOut) ==
    LET tw == title_written(ai, existing, fields)
        dw == description_written(ai, existing, fields)
        kw == tags_written(ai, existing, fields)
        sw == subject_written(ai, existing, fields)
    IN [present |-> TRUE, wellFormed |-> TRUE,
        exifIfd |-> e.exifIfd \/ (dw /\ withComment),
        imageDescription |-> IF tw THEN ai.title ELSE e.imageDescription,
        xpTitle |-> IF tw THEN ai.title ELSE e.xpTitle,
        userComment |-> IF dw /\ withComment THEN ai.description
                        ELSE e.userComment,
        xpComment |-> IF dw THEN ai.description ELSE e.xpComment,
        xpKeywords |-> IF kw THEN join(ai.tags) ELSE e.xpKeywords,
        xpSubject |-> IF sw THEN join(ai.subject) ELSE e.xpSubject,
        gps |-> gpsOut]

\* little_exif: Metadata (loaded or new) + set_tag for every new tag, then
\* as_u8_vec / write_to_file.  Its encoder emits IFD0 and ExifIFD only, so the
\* GPS IFD is not part of the output (writer.rs 330-332).
little_exif_encode(e, ai, existing, fields) ==
    overlay_exif(e, ai, existing, fields, TRUE, {})

\* inject_ai_tags_into_tiff: the original stream is kept, rebuilt IFDs are
\* appended.  UserComment is added only when the original has an ExifIFD
\* (writer.rs 1177); the GPS IFD keeps its entries and gains the new ones.
inject_ai_tags_into_tiff(e, ai, existing, fields) ==
    overlay_exif(e, ai, existing, fields, e.exifIfd,
                 IF gps_written(ai, existing, fields)
                 THEN e.gps \cup {ai.gps} ELSE e.gps)

\* --------------------------------------------------------- container writers
\* env is what the environment decides during one write: io is the outcome of
\* the file system calls ("ok", "read_err": std::fs::read fails, "create_err":
\* std::fs::write fails before truncating, "write_err": std::fs::write fails
\* after it truncated the file), lex whether little_exif parses the existing
\* EXIF, libWrite whether little_exif's write_to_file succeeds.
Envs ==
    [io : {"ok", "read_err", "create_err", "write_err"},
     lex : BOOLEAN, libWrite : BOOLEAN]

Failed(file) == [ok |-> FALSE, img |-> file]

\* std::fs::write(path, output): truncate, then write
fs_write(file, output, env) ==
    CASE env.io = "create_err" -> Failed(file)
      [] env.io = "write_err" -> Failed(PartialFile)
      [] OTHER -> [ok |-> TRUE, img |-> output]

\* write_tags_to_jpeg (writer.rs 310-401)
write_tags_to_jpeg(file, ai, existing, fields, env) ==
    LET gps_involved == existing.has_gps
                        \/ (fields.write_gps /\ ai.gps # None)
        merged == ~gps_involved /\ env.lex
                  /\ file.exif.present /\ file.exif.wellFormed
        new_exif ==
            IF merged THEN little_exif_encode(file.exif, ai, existing, fields)
            ELSE IF ~file.exif.present
                 THEN little_exif_encode(NoExif, ai, existing, fields)
                 ELSE inject_ai_tags_into_tiff(file.exif, ai, existing, fields)
        output == MkFile("ok", new_exif,
                         update_xmp_metadata(file.xmp, ai, existing, fields),
                         update_iptc_metadata(file.iptc, ai, existing, fields))
    IN IF env.io = "read_err" \/ file.state # "ok" THEN Failed(file)
       ELSE IF ~merged /\ file.exif.present /\ ~file.exif.wellFormed
            THEN Failed(file)
            ELSE fs_write(file, output, env)

\* write_xmp_to_png (writer.rs 404-452): the XMP iTXt chunk is replaced by a
\* packet built from scratch
write_xmp_to_png(file, ai, existing, fields, env) ==
    LET xmp == build_xmp_fresh(xmp_title(ai, existing, fields),
                               xmp_description(ai, existing, fields),
                               xmp_keywords(ai, existing, fields))
    IN IF env.io = "read_err" \/ file.state # "ok" THEN Failed(file)
       ELSE fs_write(file, MkFile("ok", file.exif, xmp, file.iptc), env)

\* write_metadata_to_webp (writer.rs 455-498): a fresh "XMP " chunk, and when
\* the title is written an EXIF chunk holding ImageDescription alone
write_metadata_to_webp(file, ai, existing, fields, env) ==
    LET xmp == build_xmp_fresh(xmp_title(ai, existing, fields),
                               xmp_description(ai, existing, fields),
                               xmp_keywords(ai, existing, fields))
        exif == IF title_written(ai, existing, fields)
                THEN [NoExif EXCEPT !.present = TRUE,
                                    !.imageDescription = ai.title]
                ELSE file.exif
    IN IF env.io = "read_err" \/ file.state # "ok" THEN Failed(file)
       ELSE fs_write(file, MkFile("ok", exif, xmp, file.iptc), env)

\* write_tags_to_tiff (writer.rs 501-513): always through little_exif
write_tags_to_tiff(file, ai, existing, fields, env) ==
    LET loaded == env.lex /\ file.state = "ok"
                  /\ file.exif.present /\ file.exif.wellFormed
        base == IF loaded THEN file.exif ELSE NoExif
    IN IF ~env.libWrite \/ file.state # "ok" THEN Failed(file)
       ELSE [ok |-> TRUE,
             img |-> MkFile("ok", little_exif_encode(base, ai, existing, fields),
                            file.xmp, file.iptc)]

\* write_sidecar_xmp (writer.rs 516-534): the content written at the sidecar
\* path; the image itself is not opened
write_sidecar_xmp(side, ai, existing, fields, env) ==
    LET xmp == build_xmp_fresh(xmp_title(ai, existing, fields),
                               xmp_description(ai, existing, fields),
                               xmp_keywords(ai, existing, fields))
    IN fs_write(side, MkFile("ok", NoExif, xmp, NoIptc), env)

\* write_exif (writer.rs 181-307).  file is the image, side the file at the
\* sidecar path; the result carries both as they are afterwards.
write_exif(path, file, side, ai, existing, fields, dry_run, image_kind, env) ==
    LET result == WriteResult(ai, existing, fields)
        empty == new_tags_empty(ai, existing, fields)
        untouched == [ok |-> TRUE, img |-> file, side |-> side,
                      result |-> result]
        native(w) == [ok |-> w.ok, img |-> w.img, side |-> side,
                      result |-> result]
    IN IF dry_run THEN untouched
       ELSE CASE image_kind = Jpeg ->
                   IF empty THEN untouched
                   ELSE native(write_tags_to_jpeg(file, ai, existing, fields, env))
              [] image_kind = Png ->
                   native(write_xmp_to_png(file, ai, existing, fields, env))
              [] image_kind = WebP ->
                   native(write_metadata_to_webp(file, ai, existing, fields, env))
              [] image_kind = Tiff ->
                   IF empty THEN untouched
                   ELSE native(write_tags_to_tiff(file, ai, existing, fields, env))
              [] OTHER ->
                   LET w == write_sidecar_xmp(side, ai, existing, fields, env)
                   IN [ok |-> w.ok, img |-> file, side |-> w.img,
                       result |-> IF w.ok
                                  THEN [result EXCEPT
                                          !.sidecar_path = SidecarPath(path)]
                                  ELSE result]

\* =================================================================== state
VARIABLES
    path,       \* the image path handed to process_image / write_exif
    fs,         \* the file system: path -> file contents
    file0,      \* the image as it was before the first run (history)
    startFs,    \* the file system as it was when the current run started
                \* (history)
    pc,         \* position of the current run
    cfg,        \* config.output of the current run: dry_run, backup_originals
    chain,      \* number of AI services in the failover chain
    called,     \* the backends called so far in this run, in call order
    existing,   \* ExifData handed to the writer
    ai,         \* result.ai_result
    fields,     \* config.exif_fields used by the write phase
    result,     \* ProcessResult / WriteResult of the run
    warned,     \* whether the run logged "Failed to backup"
    input,      \* the argument of the unit under study (segment list, IFDs,
                \* response text), for the specifications of single functions
    output,     \* what that unit returned, once it has been applied
    hook,       \* the process-wide panic hook (std::panic::set_hook)
    hook0,      \* the panic hook installed before the calls (history)
    prev_hook,  \* per call of load_existing_metadata: its local prev_hook
    hook_pc,    \* per call of load_existing_metadata: its position
    loaded,     \* per call: what catch_unwind(Metadata::new_from_path) gave
    processing, \* App.processing of the GUI
    rx,         \* the BgMessage channel: messages sent and not yet received
    tasks,      \* the background tasks spawned on App.rt, in spawn order
    images      \* App.images: per image, whose result its entry holds

vars == <<path, fs, file0, startFs, pc, cfg, chain, called, existing, ai,
          fields, result, warned, input, output, hook, hook0, prev_hook,
          hook_pc, loaded, processing, rx, tasks, images>>

\* The calls of load_existing_metadata that may run at the same time.
Threads == {1, 2}

\* The variables of the panic hook and of the calls that swap it.
hookVars == <<hook, hook0, prev_hook, hook_pc, loaded>>

\* No call of load_existing_metadata is under way; the default hook is in
\* place.
HookInit ==
    /\ hook = "default"
    /\ hook0 = "default"
    /\ prev_hook = [t \in Threads |-> None]
    /\ hook_pc = [t \in Threads |-> "idle"]
    /\ loaded = [t \in Threads |-> None]

\* The images loaded into the GUI.
Images == {1, 2}

\* The variables of the GUI.
guiVars == <<processing, rx, tasks, images>>

\* App::new followed by add_paths: nothing runs, the channel is empty, the
\* images are listed and none has a result.
GuiInit ==
    /\ processing = FALSE
    /\ rx = <<>>
    /\ tasks = <<>>
    /\ images = [i \in Images |-> None]

\* The variables only the specifications of single functions use.
auxVars == <<input, output, hookVars, guiVars>>

NoValue == <<>>

AuxInit == input = NoValue /\ output = NoValue /\ HookInit /\ GuiInit

\* ------------------------------------------------------------ input domains
NoAi == [title |-> None, description |-> None, tags |-> None,
         subject |-> None, gps |-> None]

\* Every AiResult serde can produce: lists may be present but empty.
AiResults ==
    [title : {None, AiVal}, description : {None, AiVal},
     tags : {None, "empty", AiVal}, subject : {None, "empty", AiVal},
     gps : {None, AiVal}]

\* Responses met by the writer specification: each field present or absent.
AiPresence == {r \in AiResults : r.tags # "empty" /\ r.subject # "empty"}

\* Responses of the backends in the failover specification: description,
\* tags and subject come together.
AiResponses ==
    {r \in AiPresence : r.tags = r.description /\ r.subject = r.description}

\* Responses of the single backend of the pipeline specification: nothing,
\* every text field, or every text field and a location.
FullAi(g) == [title |-> AiVal, description |-> AiVal, tags |-> AiVal,
              subject |-> AiVal, gps |-> g]

PipelineResponses == {NoAi, FullAi(None), FullAi(AiVal)}

Fields ==
    [write_title : BOOLEAN, write_description : BOOLEAN, write_tags : BOOLEAN,
     write_gps : BOOLEAN, write_subject : BOOLEAN, overwrite_existing : BOOLEAN]

AllOff == [write_title |-> FALSE, write_description |-> FALSE,
           write_tags |-> FALSE, write_gps |-> FALSE, write_subject |-> FALSE,
           overwrite_existing |-> FALSE]

\* Policies of the pipeline specification: the four text domains are switched
\* together.
PipelineFields ==
    {f \in Fields : /\ f.write_description = f.write_title
                    /\ f.write_tags = f.write_title
                    /\ f.write_subject = f.write_title}

\* config.rs 165-172: the default policy
DefaultFields ==
    [write_title |-> TRUE, write_description |-> TRUE, write_tags |-> TRUE,
     write_gps |-> TRUE, write_subject |-> TRUE, overwrite_existing |-> FALSE]

ExifDatas ==
    [title : {None, Orig}, description : {None, Orig}, keywords : {None, Orig},
     subject : {None, Orig}, has_gps : BOOLEAN]

\* Sample images.  A camera file carries the given fields in EXIF, mirrored
\* in an XMP packet and an IPTC block that also hold foreign properties.
CameraFile(t, d, k, s, g) ==
    MkFile("ok",
           [present |-> TRUE, wellFormed |-> TRUE, exifIfd |-> TRUE,
            imageDescription |-> t, xpTitle |-> None,
            userComment |-> d, xpComment |-> None,
            xpKeywords |-> k, xpSubject |-> s,
            gps |-> IF g THEN {Orig} ELSE {}],
           [present |-> TRUE, title |-> t, headline |-> t, description |-> d,
            subject |-> k, other |-> TRUE],
           [present |-> TRUE, objectName |-> t, caption |-> d, keywords |-> k,
            otherIim |-> TRUE, otherRes |-> TRUE])

\* An image whose Exif segment does not hold a valid TIFF stream.
BadTiffFile ==
    MkFile("ok", [NoExif EXCEPT !.present = TRUE, !.wellFormed = FALSE],
           NoXmp, NoIptc)

SampleFiles ==
    {BareFile, CorruptFile, BadTiffFile,
     CameraFile(Orig, Orig, Orig, Orig, TRUE),
     CameraFile(Orig, None, None, None, TRUE)}

\* One extension per container kind.
PipelineExts == {"jpg", "png", "webp", "tiff", "CR3"}

PathsOf(p) == {p, BackupPath(p), SidecarPath(p)}

InitFs(p, file) ==
    [q \in PathsOf(p) |-> IF q = p THEN file ELSE NoFile]

\* ProcessResult as constructed at pipeline.rs 352-366
InitResult ==
    [error |-> "", ai_service_used |-> 0,
     title_written |-> FALSE, description_written |-> FALSE,
     tags_written |-> FALSE, subject_written |-> FALSE,
     gps_written |-> FALSE, skipped_fields |-> <<>>, sidecar_path |-> <<>>]

NoCfg == [dry_run |-> FALSE, backup_originals |-> FALSE]

\* the outcome of write_exif copied into the run's result
Outcome(r, w, msg) ==
    IF w.ok
    THEN [r EXCEPT !.title_written = w.result.title_written,
                   !.description_written = w.result.description_written,
                   !.tags_written = w.result.tags_written,
                   !.subject_written = w.result.subject_written,
                   !.gps_written = w.result.gps_written,
                   !.skipped_fields = w.result.skipped_fields,
                   !.sidecar_path = w.result.sidecar_path]
    ELSE [r EXCEPT !.error = msg]

\* ======================================================= pipeline: actions
\* kind.unwrap_or(ImageKind::Jpeg) at pipeline.rs 442
write_kind(p) == IF from_path(p[2]) = NoKind THEN Jpeg ELSE from_path(p[2])

InitWith(exts, files) ==
    /\ AuxInit
    /\ \E e \in exts, f \in files :
          /\ path = ImagePath(e)
          /\ fs = InitFs(ImagePath(e), f)
          /\ file0 = f
          /\ startFs = InitFs(ImagePath(e), f)
    /\ pc = "idle"
    /\ cfg = NoCfg
    /\ chain = 0
    /\ called = <<>>
    /\ existing = DefaultExifData
    /\ ai = NoAi
    /\ fields = AllOff
    /\ result = InitResult
    /\ warned = FALSE

\* process_image is entered with a configuration and a service chain
StartRun(lens) ==
    /\ UNCHANGED auxVars
    /\ pc = "idle"
    /\ \E d \in BOOLEAN, b \in BOOLEAN, n \in lens :
          /\ cfg' = [dry_run |-> d, backup_originals |-> b]
          /\ chain' = n
    /\ startFs' = fs
    /\ pc' = "read"
    /\ UNCHANGED <<path, fs, file0, called, existing, ai, fields, result,
                   warned>>

\* pipeline.rs 368-374: a failed read leaves ExifData::default()
ReadExif ==
    /\ UNCHANGED auxVars
    /\ pc = "read"
    /\ \E readOk \in BOOLEAN :
          existing' = IF readOk THEN read_exif(fs[path]) ELSE DefaultExifData
    /\ pc' = "load"
    /\ UNCHANGED <<path, fs, file0, startFs, cfg, chain, called, ai, fields,
                   result, warned>>

\* pipeline.rs 376-383: std::fs::read of the image
ReadBytes ==
    /\ UNCHANGED auxVars
    /\ pc = "load"
    /\ \E readOk \in BOOLEAN :
          IF readOk
          THEN pc' = "ai" /\ result' = result
          ELSE /\ pc' = "done"
               /\ result' = [result EXCEPT !.error = "Failed to read file"]
    /\ UNCHANGED <<path, fs, file0, startFs, cfg, chain, called, existing, ai,
                   fields, warned>>

\* A loop that takes any answer of a backend as a result.
non_empty_any(r) == TRUE

\* ai_data.title.is_some() || ai_data.description.is_some()
non_empty(r) == r.title # None \/ r.description # None

\* A loop without the break.
loop_never_breaks(status, r) == TRUE

\* the break at pipeline.rs 413: the loop goes on unless the backend answered
\* with a non-empty result
loop_continues(status, r) == ~(status = "ok" /\ non_empty(r))

\* pipeline.rs 396-423: one iteration of the failover loop.  The backend
\* either fails (status "err") or answers with some response.
CallService(responses) ==
    /\ UNCHANGED auxVars
    /\ pc = "ai"
    /\ Len(called) < chain
    /\ \E status \in {"err", "ok"}, r \in responses :
          /\ status = "err" => r = NoAi
          /\ called' = Append(called, [svc |-> Len(called) + 1,
                                       status |-> status, response |-> r])
          /\ IF status = "ok" /\ non_empty(r)
             THEN /\ ai' = r
                  /\ result' = [result EXCEPT
                                  !.ai_service_used = Len(called) + 1]
             ELSE UNCHANGED <<ai, result>>
          /\ pc' = IF loop_continues(status, r) THEN "ai" ELSE "backup"
    /\ UNCHANGED <<path, fs, file0, startFs, cfg, chain, existing, fields,
                   warned>>

\* pipeline.rs 425-431: the chain is exhausted without a result
AllFailed ==
    /\ UNCHANGED auxVars
    /\ pc = "ai"
    /\ Len(called) = chain
    /\ ai = NoAi
    /\ result' = [result EXCEPT !.error = "All AI services failed"]
    /\ pc' = "done"
    /\ UNCHANGED <<path, fs, file0, startFs, cfg, chain, called, existing, ai,
                   fields, warned>>

\* std::fs::copy(path, backup_path): the outcome is "ok", "none" (the copy
\* fails before the destination is created) or "partial" (it fails part-way)
CopyOutcomes == {"ok", "none", "partial"}

fs_copy(files, p, outcome) ==
    CASE outcome = "ok" -> [files EXCEPT ![BackupPath(p)] = files[p]]
      [] outcome = "partial" -> [files EXCEPT ![BackupPath(p)] = PartialFile]
      [] OTHER -> files

\* A backup that copies over an existing backup.
backup_file_overwriting(files, p, outcome) == fs_copy(files, p, outcome)

\* backup_file (pipeline.rs 204-216): copy unless the backup exists
backup_file(files, p, outcome) ==
    IF files[BackupPath(p)].state = "nofile"
    THEN fs_copy(files, p, outcome)
    ELSE files

\* A failed copy that goes unnoticed.
backup_failure_unnoticed(files, p, outcome) == FALSE

\* backup_file returns Err when std::fs::copy was attempted and failed
backup_failed(files, p, outcome) ==
    files[BackupPath(p)].state = "nofile" /\ outcome # "ok"

\* A backup condition that does not look at dry_run.
should_backup_in_dry_run(c) == c.backup_originals

\* pipeline.rs 434: config.output.backup_originals && !config.output.dry_run
should_backup(c) == c.backup_originals /\ ~c.dry_run

\* pipeline.rs 433-438: a failed backup is only logged
Backup ==
    /\ UNCHANGED auxVars
    /\ pc = "backup"
    /\ IF should_backup(cfg)
       THEN \E outcome \in CopyOutcomes :
               /\ fs' = backup_file(fs, path, outcome)
               /\ warned' = backup_failed(fs, path, outcome)
       ELSE fs' = fs /\ warned' = warned
    /\ pc' = "write"
    /\ UNCHANGED <<path, file0, startFs, cfg, chain, called, existing, ai,
                   fields, result>>

\* pipeline.rs 440-466: the write phase
Write(policies) ==
    /\ UNCHANGED auxVars
    /\ pc = "write"
    /\ \E f \in policies, env \in Envs :
          LET w == write_exif(path, fs[path], fs[SidecarPath(path)], ai,
                              existing, f, cfg.dry_run, write_kind(path), env)
          IN /\ fields' = f
             /\ fs' = [fs EXCEPT ![path] = w.img,
                                 ![SidecarPath(path)] = w.side]
             /\ result' = Outcome(result, w, "Failed to write metadata")
    /\ pc' = "done"
    /\ UNCHANGED <<path, file0, startFs, cfg, chain, called, existing, ai,
                   warned>>

\* process_image returns; its locals are dropped
Return ==
    /\ UNCHANGED auxVars
    /\ pc = "done"
    /\ pc' = "idle"
    /\ cfg' = NoCfg
    /\ chain' = 0
    /\ called' = <<>>
    /\ existing' = DefaultExifData
    /\ ai' = NoAi
    /\ fields' = AllOff
    /\ result' = InitResult
    /\ warned' = FALSE
    /\ UNCHANGED <<path, fs, file0, startFs>>

\* ------------------------------------------------ the pipeline specification
\* Any number of runs of process_image on one image, with one backend.
Init == InitWith(PipelineExts, SampleFiles)

Next ==
    \/ StartRun({1})
    \/ ReadExif
    \/ ReadBytes
    \/ CallService(PipelineResponses)
    \/ AllFailed
    \/ Backup
    \/ Write(PipelineFields)
    \/ Return

Spec == Init /\ [][Next]_vars

\* ------------------------------------------------ the failover specification
\* Runs of process_image with chains of up to MaxServices backends.
InitAi == InitWith({"heic"}, {CameraFile(Orig, None, None, None, TRUE)})

NextAi ==
    \/ StartRun(0..MaxServices)
    \/ ReadExif
    \/ ReadBytes
    \/ CallService(AiResponses)
    \/ AllFailed
    \/ Backup
    \/ Write({DefaultFields})
    \/ Return

SpecAi == InitAi /\ [][NextAi]_vars

\* -------------------------------------------------- the writer specification
\* The lower-level use of the library (lib.rs 44-90): read_exif, then one call
\* of write_exif with the kind from_path gives, on every extension of the
\* sidecar family and one extension per native kind.
\* An image whose EXIF holds IFD0 alone: a title, no ExifIFD, no GPS IFD.
Ifd0OnlyFile ==
    MkFile("ok", [NoExif EXCEPT !.present = TRUE, !.imageDescription = Orig],
           NoXmp, NoIptc)

\* An image whose UserComment carries a charset prefix other than ASCII and
\* UNICODE (JIS, or eight zero bytes), and that has no XPComment.
JunkCommentFile ==
    MkFile("ok", [NoExif EXCEPT !.present = TRUE, !.exifIfd = TRUE,
                                !.userComment = "junk"],
           NoXmp, NoIptc)

WriterFiles ==
    {BareFile, CorruptFile, BadTiffFile, Ifd0OnlyFile, JunkCommentFile,
     CameraFile(Orig, Orig, Orig, Orig, TRUE),
     CameraFile(Orig, None, None, None, TRUE),
     CameraFile(None, Orig, None, None, FALSE)}

NativeExts == {"jpg", "png", "webp", "Tiff"}

WriterExts == NativeExts \cup SidecarExts \cup {"HEIC", "CR3"}

\* Policies of the writer specification: subject follows tags.
WriterFields == {f \in Fields : f.write_subject = f.write_tags}

InitWrite ==
    /\ AuxInit
    /\ \E e \in WriterExts, f \in WriterFiles :
          /\ from_path(e) = Sidecar => f \in {BareFile,
                                             CameraFile(Orig, None, None, None, TRUE)}
          /\ path = ImagePath(e)
          /\ fs = InitFs(ImagePath(e), f)
          /\ file0 = f
          /\ startFs = InitFs(ImagePath(e), f)
    /\ pc = "lib"
    /\ cfg = NoCfg
    /\ chain = 0
    /\ called = <<>>
    /\ existing = DefaultExifData
    /\ ai = NoAi
    /\ fields = AllOff
    /\ result = InitResult
    /\ warned = FALSE

LibRead ==
    /\ UNCHANGED auxVars
    /\ pc = "lib"
    /\ existing' = read_exif(fs[path])
    /\ pc' = "lib_read"
    /\ UNCHANGED <<path, fs, file0, startFs, cfg, chain, called, ai, fields,
                   result, warned>>

LibWrite(responses, policies, dry) ==
    /\ UNCHANGED auxVars
    /\ pc = "lib_read"
    /\ \E r \in responses, f \in policies, d \in dry, env \in Envs :
          LET w == write_exif(path, fs[path], fs[SidecarPath(path)], r,
                              existing, f, d, from_path(path[2]), env)
          IN /\ ai' = r
             /\ fields' = f
             /\ cfg' = [dry_run |-> d, backup_originals |-> FALSE]
             /\ fs' = [fs EXCEPT ![path] = w.img,
                                 ![SidecarPath(path)] = w.side]
             /\ result' = Outcome(result, w, "Failed to write metadata")
    /\ pc' = "lib_done"
    /\ UNCHANGED <<path, file0, startFs, chain, called, existing, warned>>

NextWrite ==
    \/ LibRead
    \/ LibWrite(AiPresence, WriterFields, {FALSE})

SpecWrite == InitWrite /\ [][NextWrite]_vars

\* ------------------------------------------------ the decision specification
\* write_exif as the unit tests call it: a hand-made ExifData and dry_run,
\* which returns the per-field decision and touches nothing.
InitDecide ==
    /\ AuxInit
    /\ path = ImagePath("jpg")
    /\ fs = InitFs(ImagePath("jpg"), BareFile)
    /\ file0 = BareFile
    /\ startFs = InitFs(ImagePath("jpg"), BareFile)
    /\ pc = "lib_read"
    /\ cfg = NoCfg
    /\ chain = 0
    /\ called = <<>>
    /\ existing \in ExifDatas
    /\ ai = NoAi
    /\ fields = AllOff
    /\ result = InitResult
    /\ warned = FALSE

NextDecide == LibWrite(AiResults, Fields, {TRUE})

SpecDecide == InitDecide /\ [][NextDecide]_vars

\* ================================================================== claims
Bak == BackupPath(path)

\* C1: after any sequence of process_image runs on a file that holds GPS
\* coordinates, the coordinates stored in the file are the ones it had before
\* the first run.
C1_ExistingGpsNeverOverwritten ==
    (file0.exif.gps # {} /\ fs[path].state = "ok")
        => fs[path].exif.gps = file0.exif.gps

\* C2: each of title, description, tags and subject is reported written
\* exactly when its flag is on, the AI result has a value for it and the
\* existing field is absent or overwrite_existing is set; GPS exactly when
\* write_gps is on, the AI result has GPS and the file has none.  "Has a
\* value" is read the same way for both lists: either as "is Some" or as "is
\* a non-empty list".
C2_DecisionIsPolicy ==
    pc = "lib_done" =>
        \E strict \in BOOLEAN :
            LET has(v) == v # None /\ (strict => v # "empty")
                free(x) == x = None \/ fields.overwrite_existing
            IN /\ result.title_written
                    = (fields.write_title /\ ai.title # None
                       /\ free(existing.title))
               /\ result.description_written
                    = (fields.write_description /\ ai.description # None
                       /\ free(existing.description))
               /\ result.tags_written
                    = (fields.write_tags /\ has(ai.tags)
                       /\ free(existing.keywords))
               /\ result.subject_written
                    = (fields.write_subject /\ has(ai.subject)
                       /\ free(existing.subject))
               /\ result.gps_written
                    = (fields.write_gps /\ ai.gps # None
                       /\ ~existing.has_gps)

InSeq(x, seq) == \E k \in 1..Len(seq) : seq[k] = x

\* C3: with overwrite_existing = false, a successful write reports every
\* target field that already exists in the file (and that the policy and the
\* AI result would have written) in skipped_fields, and that field is the same
\* as before in the EXIF, XMP and IPTC blocks of the output.
C3_ExistingFieldsUntouched ==
    (pc = "lib_done" /\ result.error = "" /\ ~fields.overwrite_existing) =>
        LET new == fs[path]
        IN /\ (fields.write_title /\ ai.title # None /\ existing.title # None)
                => /\ InSeq("title (existing)", result.skipped_fields)
                   /\ new.exif.imageDescription = file0.exif.imageDescription
                   /\ new.exif.xpTitle = file0.exif.xpTitle
                   /\ new.xmp.title = file0.xmp.title
                   /\ new.xmp.headline = file0.xmp.headline
                   /\ new.iptc.objectName = file0.iptc.objectName
           /\ (fields.write_description /\ ai.description # None
               /\ existing.description # None)
                => /\ InSeq("description (existing)", result.skipped_fields)
                   /\ new.exif.userComment = file0.exif.userComment
                   /\ new.exif.xpComment = file0.exif.xpComment
                   /\ new.xmp.description = file0.xmp.description
                   /\ new.iptc.caption = file0.iptc.caption
           /\ (fields.write_tags /\ ai.tags # None /\ existing.keywords # None)
                => /\ InSeq("tags (existing)", result.skipped_fields)
                   /\ new.exif.xpKeywords = file0.exif.xpKeywords
                   /\ new.xmp.subject = file0.xmp.subject
                   /\ new.iptc.keywords = file0.iptc.keywords
           /\ (fields.write_subject /\ ai.subject # None
               /\ existing.subject # None)
                => /\ InSeq("subject (existing)", result.skipped_fields)
                   /\ new.exif.xpSubject = file0.exif.xpSubject
           /\ (fields.write_gps /\ ai.gps # None /\ existing.has_gps)
                => /\ InSeq("gps (existing coordinates)",
                            result.skipped_fields)
                   /\ new.exif.gps = file0.exif.gps

\* C4: a dry run of process_image changes no file (image, sidecar, backup),
\* returns no sidecar_path, and still reports the written flags and the
\* skipped fields the decision yields.
C4_DryRunModifiesNothing ==
    (pc # "idle" /\ cfg.dry_run) =>
        /\ fs = startFs
        /\ result.sidecar_path = <<>>
        /\ (pc = "done" /\ result.error = "") =>
              LET d == WriteResult(ai, existing, fields)
              IN /\ result.title_written = d.title_written
                 /\ result.description_written = d.description_written
                 /\ result.tags_written = d.tags_written
                 /\ result.subject_written = d.subject_written
                 /\ result.gps_written = d.gps_written
                 /\ result.skipped_fields = d.skipped_fields

C4_Witness ==
    /\ pc = "done"
    /\ cfg.dry_run
    /\ cfg.backup_originals
    /\ result.error = ""
    /\ result.title_written
    /\ result.gps_written
    /\ from_path(path[2]) = Sidecar

\* a backend call that failed or answered without title and description
EmptyCall(c) ==
    c.status = "err"
    \/ (c.response.title = None /\ c.response.description = None)

\* C5: when every backend of the chain failed or returned an empty result,
\* the run ends with an error and with every file as it was at the start of
\* the run; the backup and write steps are entered only with a result.
C5_AllBackendsFailed ==
    /\ pc \in {"backup", "write"}
          => (ai.title # None \/ ai.description # None)
    /\ (pc = "done" /\ Len(called) = chain
        /\ \A k \in 1..Len(called) : EmptyCall(called[k]))
          => (result.error # "" /\ fs = startFs)

C5_Witness ==
    /\ pc = "done"
    /\ chain = 2
    /\ Len(called) = 2
    /\ called[1].status = "err"
    /\ called[2].status = "ok"
    /\ cfg.backup_originals
    /\ ~cfg.dry_run
    /\ result.error = "All AI services failed"

\* C6: the backends are called in chain order, nothing is called after a
\* backend has succeeded with a non-empty result, and the run uses the answer
\* of that backend and records it in ai_service_used.
C6_FirstSuccessWins ==
    /\ \A k \in 1..Len(called) : called[k].svc = k
    /\ \A k \in 1..(Len(called) - 1) : EmptyCall(called[k])
    /\ (pc \in {"backup", "write"} \/ (pc = "done" /\ result.error = ""))
          => /\ result.ai_service_used = Len(called)
             /\ ~EmptyCall(called[Len(called)])
             /\ ai = called[Len(called)].response

C6_Witness ==
    /\ pc = "write"
    /\ chain = 2
    /\ Len(called) = 1
    /\ result.ai_service_used = 1

\* C7 as stated: with backup enabled and dry-run off, whenever the image
\* differs from what it was at the start of the run, the backup file exists.
C7_BackupBeforeReplacement ==
    (pc # "idle" /\ cfg.backup_originals /\ ~cfg.dry_run
     /\ fs[path] # startFs[path])
        => fs[Bak].state # "nofile"

\* C7 amended: with backup enabled and dry-run off, whenever the image
\* differs from what it was at the start of the run, the backup file exists
\* or the run has logged that creating it failed.
C7_BackupOrWarning ==
    (pc # "idle" /\ cfg.backup_originals /\ ~cfg.dry_run
     /\ fs[path] # startFs[path])
        => (fs[Bak].state # "nofile" \/ warned)

C7_Witness ==
    /\ pc = "done"
    /\ cfg.backup_originals
    /\ ~cfg.dry_run
    /\ ~warned
    /\ fs[path] # startFs[path]
    /\ startFs[Bak].state = "nofile"
    /\ fs[Bak] = startFs[path]

\* C8 as stated: a backup that exists holds the image as it was before the
\* first modifying run.
C8_BackupHoldsOriginal ==
    fs[Bak].state # "nofile" => fs[Bak] = file0

\* C8 amended: an existing backup is never changed, and a backup that comes
\* into existence is a copy of the image as it is at that moment, or what a
\* failed copy left behind.
C8_BackupNeverRewritten ==
    [][IF fs[Bak].state # "nofile"
       THEN fs'[Bak] = fs[Bak]
       ELSE fs'[Bak] \in {fs[Bak], fs[path], PartialFile}]_vars

C8_Witness ==
    /\ pc = "done"
    /\ cfg.backup_originals
    /\ ~cfg.dry_run
    /\ startFs[Bak].state = "ok"
    /\ fs[path] # startFs[path]
    /\ fs[path].state = "ok"
    /\ fs[Bak] # startFs[path]

\* C9: a write that fails leaves the image as it was before the write.
C9_FailedWriteLeavesOriginal ==
    (pc = "lib_done" /\ result.error # "") => fs[path] = file0

\* C10: every extension of the sidecar family, in any case, selects the
\* Sidecar strategy; a successful write leaves the image as it was, changes
\* only the file whose path is the image path with the extension replaced by
\* "xmp", puts the written fields there and returns that path as sidecar_path.
C10_SidecarOnly ==
    /\ \A e \in WriterExts :
          to_lowercase(e) \in SidecarExts => from_path(e) = Sidecar
    /\ (to_lowercase(path[2]) \in SidecarExts /\ pc = "lib_done"
        /\ result.error = "")
          => /\ fs[path] = file0
             /\ result.sidecar_path = <<path[1], "xmp">>
             /\ \A q \in DOMAIN fs :
                   q # <<path[1], "xmp">> => fs[q] = startFs[q]
             /\ fs[<<path[1], "xmp">>].state = "ok"
             /\ fs[<<path[1], "xmp">>].xmp.title
                   = (IF result.title_written THEN ai.title ELSE None)
             /\ fs[<<path[1], "xmp">>].xmp.description
                   = (IF result.description_written THEN ai.description
                      ELSE None)

C10_Witness ==
    /\ pc = "lib_done"
    /\ path[2] = "HEIC"
    /\ result.error = ""
    /\ result.title_written
    /\ file0 # BareFile
    /\ fs[<<"photo", "xmp">>].xmp.title = AiVal

\* C11: a successful non-dry-run write with every field-write disabled leaves
\* the image as it was, for every container kind.
C11_AllDisabledLeavesImage ==
    (pc = "lib_done" /\ result.error = "" /\ ~cfg.dry_run
     /\ ~fields.write_title /\ ~fields.write_description
     /\ ~fields.write_tags /\ ~fields.write_subject /\ ~fields.write_gps)
        => fs[path] = file0

\* C12: when a JPEG or TIFF that holds an EXIF block is written and GPS is
\* involved (the existing metadata has GPS, or the write adds GPS), the EXIF
\* block of the output is the one the raw-injection path produces.
C12_GpsUsesRawInjection ==
    (pc = "lib_done" /\ result.error = "" /\ ~cfg.dry_run
     /\ from_path(path[2]) \in {Jpeg, Tiff}
     /\ file0.exif.present
     /\ ~new_tags_empty(ai, existing, fields)
     /\ (existing.has_gps \/ (fields.write_gps /\ ai.gps # None)))
        => fs[path].exif
             = inject_ai_tags_into_tiff(file0.exif, ai, existing, fields)

\* ============================================== container segment layouts
\* A container is a list of segment (chunk) kinds.  "EXIF", "XMP" and "IPTC"
\* are the metadata blocks the writer produces; every other kind is opaque to
\* it.  Indices are those of img_parts: 0-based, the JPEG SOI marker is not a
\* segment.

\* Longest run of segments in front of the image data of an input layout.
MaxHead == 3

MetaKinds == {"EXIF", "XMP", "IPTC"}

Min(a, b) == IF a < b THEN a ELSE b

\* Iterator::position: 0-based index of the first segment of that kind, -1
\* for None
position(segs, kind) ==
    IF \E i \in 1..Len(segs) : segs[i] = kind
    THEN (CHOOSE i \in 1..Len(segs) :
             segs[i] = kind /\ \A j \in 1..(i - 1) : segs[j] # kind) - 1
    ELSE -1

\* Vec::retain(|s| s is not of that kind)
remove_kind(segs, kind) == SelectSeq(segs, LAMBDA s : s # kind)

\* An insertion that overwrites the segment at that index.
insert_overwriting(segs, index, x) ==
    IF index < Len(segs) THEN [segs EXCEPT ![index + 1] = x]
    ELSE Append(segs, x)

\* Vec::insert(index, x)
insert(segs, index, x) ==
    SubSeq(segs, 1, index) \o <<x>> \o SubSeq(segs, index + 1, Len(segs))

\* Jpeg::set_exif(Some(..)): the old EXIF segment goes, the new one is inserted
\* at position 3 (writer.rs 373)
set_exif(segs) ==
    LET rest == remove_kind(segs, "EXIF")
    IN insert(rest, Min(3, Len(rest)), "EXIF")

\* writer.rs 374-388: the new EXIF segment is moved back to where the old one
\* was, or to index 1
place_exif(segs) ==
    LET orig_exif_pos == position(segs, "EXIF")
        set == set_exif(segs)
        new_pos == position(set, "EXIF")
        target_pos == IF orig_exif_pos = -1 THEN 1 ELSE orig_exif_pos
    IN IF new_pos # target_pos /\ target_pos < new_pos
       THEN insert(remove_kind(set, "EXIF"), target_pos, "EXIF")
       ELSE set

\* update_xmp_metadata, writer.rs 603-614: replace in place, or insert after
\* the EXIF segment, or at index 2
place_xmp(segs) ==
    IF position(segs, "XMP") # -1 THEN segs
    ELSE LET exif_pos == position(segs, "EXIF")
             insert_pos == IF exif_pos # -1 THEN exif_pos + 1 ELSE 2
         IN insert(segs, Min(insert_pos, Len(segs)), "XMP")

\* update_iptc_metadata, writer.rs 844-851: replace in place, or insert at
\* index min(len, 4)
place_iptc(segs) ==
    IF position(segs, "IPTC") # -1 THEN segs
    ELSE insert(segs, Min(Len(segs), 4), "IPTC")

text_written(r, e, f) ==
    xmp_title(r, e, f) # None \/ xmp_description(r, e, f) # None
    \/ xmp_keywords(r, e, f) # None

\* The segment list write_tags_to_jpeg encodes (writer.rs 373-396)
jpeg_segments(segs, r, e, f) ==
    IF new_tags_empty(r, e, f) THEN segs
    ELSE LET a == place_exif(segs)
         IN IF text_written(r, e, f) THEN place_iptc(place_xmp(a)) ELSE a

\* The chunk list write_xmp_to_png encodes (writer.rs 433-446): every XMP iTXt
\* chunk goes, the new one is inserted before IDAT
png_chunks(chunks) ==
    LET rest == remove_kind(chunks, "XMP")
        idat == position(rest, "IDAT")
    IN insert(rest, IF idat = -1 THEN Len(rest) ELSE idat, "XMP")

\* The chunk list write_metadata_to_webp encodes (writer.rs 475-492): the
\* "XMP " chunks go and a new one is pushed; when the title is written
\* WebP::set_exif replaces the EXIF chunk, at an index the library chooses
webp_chunks(chunks, r, e, f, at) ==
    LET a == Append(remove_kind(chunks, "XMP"), "XMP")
        rest == remove_kind(a, "EXIF")
    IN IF title_written(r, e, f)
       THEN insert(rest, Min(at, Len(rest)), "EXIF")
       ELSE a

container_segments(kind, segs, r, e, f, at) ==
    CASE kind = Jpeg -> jpeg_segments(segs, r, e, f)
      [] kind = Png -> png_chunks(segs)
      [] OTHER -> webp_chunks(segs, r, e, f, at)

\* Input layouts: a fixed lead, up to n segments with each metadata block at
\* most once, a fixed tail.
Heads(kinds, n) ==
    {h \in UNION {[1..k -> kinds] : k \in 0..n} :
        \A i, j \in 1..Len(h) : (i # j /\ h[i] = h[j]) => h[i] \notin MetaKinds}

Layouts(kind) ==
    CASE kind = Jpeg ->
           {h \o <<"DQT", "SOF", "SOS">> :
              h \in Heads({"APP0", "APP2", "EXIF", "XMP", "IPTC"}, MaxHead)}
      [] kind = Png ->
           {<<"IHDR">> \o h \o <<"IDAT", "IEND">> :
              h \in Heads({"tEXt", "iCCP", "XMP"}, MaxHead)}
      [] OTHER ->
           {<<"VP8X">> \o h :
              h \in Heads({"VP8 ", "ICCP", "EXIF", "XMP"}, MaxHead)}

\* ------------------------------------------------ the layout specification
\* One write of a JPEG, PNG or WebP file with the default policy and no
\* existing fields, seen as a function from the input segment list to the
\* encoded one.
InitSeg ==
    /\ \E e \in {"jpg", "png", "webp"} :
          /\ path = ImagePath(e)
          /\ fs = InitFs(ImagePath(e), BareFile)
          /\ startFs = InitFs(ImagePath(e), BareFile)
          /\ input \in Layouts(from_path(e))
    /\ output = NoValue
    /\ HookInit
    /\ GuiInit
    /\ file0 = BareFile
    /\ pc = "lib_read"
    /\ cfg = NoCfg
    /\ chain = 0
    /\ called = <<>>
    /\ existing = DefaultExifData
    /\ ai = NoAi
    /\ fields = AllOff
    /\ result = InitResult
    /\ warned = FALSE

EncodeSegments ==
    /\ pc = "lib_read"
    /\ \E r \in AiPresence, at \in 0..(MaxHead + 1) :
          /\ ai' = r
          /\ output' = container_segments(from_path(path[2]), input, r,
                                          existing, DefaultFields, at)
    /\ fields' = DefaultFields
    /\ pc' = "lib_done"
    /\ UNCHANGED <<path, fs, file0, startFs, cfg, chain, called, existing,
                   result, warned, input>>
    /\ UNCHANGED hookVars
    /\ UNCHANGED guiVars

NextSeg == EncodeSegments

SpecSeg == InitSeg /\ [][NextSeg]_vars

\* C13: after a JPEG write that produced EXIF, XMP and IPTC, the output
\* segments are ordered APP0, EXIF, XMP, IPTC, other APPn, the rest -- stated
\* here only for inputs that start with APP0 and are themselves in that order.
C13_JpegSegmentOrder ==
    LET rank(kind) == CASE kind = "APP0" -> 0
                        [] kind = "EXIF" -> 1
                        [] kind = "XMP" -> 2
                        [] kind = "IPTC" -> 3
                        [] kind = "APP2" -> 4
                        [] OTHER -> 5
        Ordered(segs) ==
            \A i, j \in 1..Len(segs) : i < j => rank(segs[i]) <= rank(segs[j])
    IN (pc = "lib_done" /\ from_path(path[2]) = Jpeg
        /\ input[1] = "APP0" /\ Ordered(input)
        /\ text_written(ai, existing, fields))
           => Ordered(output)

\* C14: after a write to a JPEG, PNG or WebP, the segments (chunks) that are
\* not the written EXIF, XMP or IPTC blocks are the same, in the same order,
\* as in the input.
C14_OpaqueSegmentsKept ==
    pc = "lib_done" =>
        SelectSeq(output, LAMBDA s : s \notin MetaKinds)
          = SelectSeq(input, LAMBDA s : s \notin MetaKinds)

C14_Witness ==
    /\ pc = "lib_done"
    /\ input = <<"APP0", "APP2", "DQT", "SOF", "SOS">>
    /\ Len(output) = 8

\* ==================================================== raw TIFF injection
\* inject_ai_tags_into_tiff at the level of IFD entries.  A TIFF stream is
\* [ifd0, ifds]: the entries of the IFD the header points to, and the
\* sub-IFDs by the place they are stored at ("exif_old"/"gps_old": where the
\* original has them, "exif_new"/"gps_new": appended by the injection).  An
\* entry is [tag, value]; value stands for format, count and value bytes, and
\* for a pointer entry it is the place of the sub-IFD.
TAG_IMAGE_DESCRIPTION == 270
TAG_XP_TITLE == 40091
TAG_XP_COMMENT == 40092
TAG_XP_KEYWORDS == 40094
TAG_XP_SUBJECT == 40095
TAG_USER_COMMENT == 37510
TAG_EXIF_IFD == 34665
TAG_GPS_IFD == 34853
TAG_GPS_LATITUDE_REF == 1
TAG_GPS_LATITUDE == 2
TAG_GPS_LONGITUDE_REF == 3
TAG_GPS_LONGITUDE == 4

RawIfdEntry(tag, value) == [tag |-> tag, value |-> value]

tag_ids(ifd) == [i \in 1..Len(ifd) |-> ifd[i].tag]

contains(ifd, tag) == \E i \in 1..Len(ifd) : ifd[i].tag = tag

\* writer.rs 1024-1062: the entries to add to IFD0
ifd0_entries(r, e, f) ==
    (IF title_written(r, e, f)
     THEN <<RawIfdEntry(TAG_IMAGE_DESCRIPTION, r.title),
            RawIfdEntry(TAG_XP_TITLE, r.title)>>
     ELSE <<>>)
    \o (IF description_written(r, e, f)
        THEN <<RawIfdEntry(TAG_XP_COMMENT, r.description)>> ELSE <<>>)
    \o (IF tags_written(r, e, f)
        THEN <<RawIfdEntry(TAG_XP_KEYWORDS, join(r.tags))>> ELSE <<>>)
    \o (IF subject_written(r, e, f)
        THEN <<RawIfdEntry(TAG_XP_SUBJECT, join(r.subject))>> ELSE <<>>)

\* writer.rs 1034-1041: the entries to add to the ExifIFD
exif_ifd_entries(r, e, f) ==
    IF description_written(r, e, f)
    THEN <<RawIfdEntry(TAG_USER_COMMENT, r.description)>> ELSE <<>>

\* make_raw_gps_entries
make_raw_gps_entries(gps) ==
    <<RawIfdEntry(TAG_GPS_LATITUDE_REF, gps),
      RawIfdEntry(TAG_GPS_LATITUDE, gps),
      RawIfdEntry(TAG_GPS_LONGITUDE_REF, gps),
      RawIfdEntry(TAG_GPS_LONGITUDE, gps)>>

gps_ifd_entries(r, e, f) ==
    IF gps_written(r, e, f) THEN make_raw_gps_entries(r.gps) ELSE <<>>

\* An IFD rebuilt from the new entries alone.
fill_entries_fresh(orig, new) == new

\* writer.rs 1176-1232 and 1298-1354: the original entries are copied, a new
\* entry goes into the slot of the first original entry with its tag, or
\* into the next appended slot
fill_entries(orig, new) ==
    LET slot(i) ==
            IF position(tag_ids(orig), orig[i].tag) = i - 1
               /\ contains(new, orig[i].tag)
            THEN new[position(tag_ids(new), orig[i].tag) + 1]
            ELSE orig[i]
    IN [i \in 1..Len(orig) |-> slot(i)]
       \o SelectSeq(new, LAMBDA n : ~contains(orig, n.tag))

\* Pointer entries that keep the offset they were copied or created with.
set_pointer_nowhere(ifd, tag, place) == ifd

\* writer.rs 1375-1410: the first entry with that tag gets the new offset
set_pointer(ifd, tag, place) ==
    [i \in 1..Len(ifd) |->
        IF position(tag_ids(ifd), tag) = i - 1
        THEN RawIfdEntry(tag, place) ELSE ifd[i]]

\* the sub-IFD the entry with that tag points to
sub_ifd(tiff, tag) ==
    IF contains(tiff.ifd0, tag)
    THEN tiff.ifds[tiff.ifd0[position(tag_ids(tiff.ifd0), tag) + 1].value]
    ELSE <<>>

\* inject_ai_tags_into_tiff, writer.rs 1075-1416.  A stream is its header's
\* IFD0 offset ("ifd0_old": where the input has its IFD0, "ifd0_new": the IFD0
\* appended by the injection), the IFD0 found there, and the sub-IFDs by
\* place.
rebuild_ifds(tiff, r, e, f) ==
    LET new0 == ifd0_entries(r, e, f)
        newExif == exif_ifd_entries(r, e, f)
        newGps == gps_ifd_entries(r, e, f)
        exif_ifd_offset == contains(tiff.ifd0, TAG_EXIF_IFD)
        gps_ifd_offset == contains(tiff.ifd0, TAG_GPS_IFD)
        origExif == sub_ifd(tiff, TAG_EXIF_IFD)
        origGps == sub_ifd(tiff, TAG_GPS_IFD)
        new_exif_ifd_start == newExif # <<>> /\ exif_ifd_offset
        new_gps_ifd_start == (newGps # <<>> \/ gps_ifd_offset)
                             /\ Len(origGps) + Len(newGps) > 0
        need_gps_pointer == new_gps_ifd_start /\ ~gps_ifd_offset
        a == fill_entries(tiff.ifd0, new0)
             \o (IF need_gps_pointer
                 THEN <<RawIfdEntry(TAG_GPS_IFD, "none")>> ELSE <<>>)
        b == IF new_exif_ifd_start
             THEN set_pointer(a, TAG_EXIF_IFD, "exif_new") ELSE a
        c == IF new_gps_ifd_start
             THEN set_pointer(b, TAG_GPS_IFD, "gps_new") ELSE b
    IN IF new0 = <<>> /\ newExif = <<>> /\ newGps = <<>> THEN tiff
       ELSE [header |-> "ifd0_new",
             ifd0 |-> c,
             ifds |-> [tiff.ifds EXCEPT
                         !["exif_new"] = IF new_exif_ifd_start
                                         THEN fill_entries(origExif, newExif)
                                         ELSE @,
                         !["gps_new"] = IF new_gps_ifd_start
                                        THEN origGps \o newGps
                                        ELSE @]]

\* Input streams: IFD0 with camera entries (271 Make) and possibly a title
\* and an XPComment, an optional ExifIFD (33434 ExposureTime, UserComment) and
\* an optional GPS IFD (GPSLatitude, 6 GPSAltitude), entries in tag order.
Entries(tags, chosen) ==
    LET s == SelectSeq(tags, LAMBDA t : t \in chosen)
    IN [i \in 1..Len(s) |-> RawIfdEntry(s[i], Orig)]

Tiffs ==
    {[header |-> "ifd0_old",
      ifd0 |-> Entries(<<TAG_IMAGE_DESCRIPTION, 271>>, c0)
               \o (IF hasExif THEN <<RawIfdEntry(TAG_EXIF_IFD, "exif_old")>>
                   ELSE <<>>)
               \o (IF hasGps THEN <<RawIfdEntry(TAG_GPS_IFD, "gps_old")>>
                   ELSE <<>>)
               \o Entries(<<TAG_XP_COMMENT>>, c0),
      ifds |-> [exif_old |-> IF hasExif
                             THEN Entries(<<33434, TAG_USER_COMMENT>>, cE)
                             ELSE <<>>,
                gps_old |-> IF hasGps
                            THEN Entries(<<TAG_GPS_LATITUDE, 6>>, cG)
                            ELSE <<>>,
                exif_new |-> <<>>,
                gps_new |-> <<>>]] :
        c0 \in SUBSET {TAG_IMAGE_DESCRIPTION, 271, TAG_XP_COMMENT},
        cE \in SUBSET {33434, TAG_USER_COMMENT},
        cG \in SUBSET {TAG_GPS_LATITUDE, 6},
        hasExif \in BOOLEAN, hasGps \in BOOLEAN}

\* what read_exif finds in such a stream
exif_data_of(tiff) ==
    [title |-> IF contains(tiff.ifd0, TAG_IMAGE_DESCRIPTION) THEN Orig
               ELSE None,
     description |-> IF contains(sub_ifd(tiff, TAG_EXIF_IFD), TAG_USER_COMMENT)
                        \/ contains(tiff.ifd0, TAG_XP_COMMENT)
                     THEN Orig ELSE None,
     keywords |-> None,
     subject |-> None,
     has_gps |-> contains(sub_ifd(tiff, TAG_GPS_IFD), TAG_GPS_LATITUDE)]

\* ------------------------------------------------ the injection specification
\* One call of inject_ai_tags_into_tiff on a well-formed stream, with the
\* ExifData read from it or, after a failed read, the default one.
InitIfd ==
    /\ input \in Tiffs
    /\ existing \in {DefaultExifData, exif_data_of(input)}
    /\ output = NoValue
    /\ HookInit
    /\ GuiInit
    /\ path = ImagePath("jpg")
    /\ fs = InitFs(ImagePath("jpg"), BareFile)
    /\ startFs = InitFs(ImagePath("jpg"), BareFile)
    /\ file0 = BareFile
    /\ pc = "lib_read"
    /\ cfg = NoCfg
    /\ chain = 0
    /\ called = <<>>
    /\ ai = NoAi
    /\ fields = AllOff
    /\ result = InitResult
    /\ warned = FALSE

InjectTags ==
    /\ pc = "lib_read"
    /\ \E r \in AiResponses, o \in BOOLEAN :
          LET f == [DefaultFields EXCEPT !.overwrite_existing = o]
          IN /\ ai' = r
             /\ fields' = f
             /\ output' = rebuild_ifds(input, r, existing, f)
    /\ pc' = "lib_done"
    /\ UNCHANGED <<path, fs, file0, startFs, cfg, chain, called, existing,
                   result, warned, input>>
    /\ UNCHANGED hookVars
    /\ UNCHANGED guiVars

NextIfd == InjectTags

SpecIfd == InitIfd /\ [][NextIfd]_vars

\* C15: every entry of the original IFD0, ExifIFD and GPS IFD whose tag is
\* not being written and is not a sub-IFD pointer is found, with the same tag
\* and value, in the IFD of the output that the header and the pointers lead
\* to.
C15_ExistingTagsSurvive ==
    pc = "lib_done" =>
        LET kept(orig, new, written) ==
                \A i \in 1..Len(orig) :
                    (~contains(written, orig[i].tag)
                     /\ orig[i].tag \notin {TAG_EXIF_IFD, TAG_GPS_IFD})
                        => \E j \in 1..Len(new) : new[j] = orig[i]
        IN /\ kept(input.ifd0, output.ifd0,
                   ifd0_entries(ai, existing, fields))
           /\ kept(sub_ifd(input, TAG_EXIF_IFD), sub_ifd(output, TAG_EXIF_IFD),
                   exif_ifd_entries(ai, existing, fields))
           /\ kept(sub_ifd(input, TAG_GPS_IFD), sub_ifd(output, TAG_GPS_IFD),
                   gps_ifd_entries(ai, existing, fields))

C15_Witness ==
    /\ pc = "lib_done"
    /\ contains(input.ifd0, 271)
    /\ contains(input.ifd0, TAG_IMAGE_DESCRIPTION)
    /\ contains(sub_ifd(input, TAG_EXIF_IFD), 33434)
    /\ contains(sub_ifd(input, TAG_GPS_IFD), 6)
    /\ fields.overwrite_existing
    /\ output.ifd0[1] = RawIfdEntry(TAG_IMAGE_DESCRIPTION, AiVal)
    /\ output.ifd0[3].value = "exif_new"
    /\ output.ifd0[4].value = "gps_new"
    /\ contains(sub_ifd(output, TAG_EXIF_IFD), TAG_USER_COMMENT)

\* C16: after a successful, non-dry-run JPEG write every text field reported
\* written holds the AI value in all of its targets: title in EXIF
\* ImageDescription and XPTitle, XMP dc:title and photoshop:Headline, IPTC
\* 2:5; description in ExifIFD UserComment, IFD0 XPComment, XMP
\* dc:description, IPTC 2:120; keywords in XPKeywords, XMP dc:subject, IPTC
\* 2:25; whatever EXIF and XMP the image had before.
C16_DualWrite ==
    (pc = "lib_done" /\ result.error = "" /\ ~cfg.dry_run
     /\ from_path(path[2]) = Jpeg)
        => LET out == fs[path]
           IN /\ result.title_written =>
                    /\ out.exif.imageDescription = ai.title
                    /\ out.exif.xpTitle = ai.title
                    /\ out.xmp.title = ai.title
                    /\ out.xmp.headline = ai.title
                    /\ out.iptc.objectName = ai.title
              /\ result.description_written =>
                    /\ out.exif.userComment = ai.description
                    /\ out.exif.xpComment = ai.description
                    /\ out.xmp.description = ai.description
                    /\ out.iptc.caption = ai.description
              /\ result.tags_written =>
                    /\ out.exif.xpKeywords = join(ai.tags)
                    /\ out.xmp.subject = join(ai.tags)
                    /\ out.iptc.keywords = ai.tags

\* --------------------------------------- the unsupported-path specification
\* Runs of process_image on paths from_path does not recognise: an extension
\* outside the table and a path without extension.
UnsupportedExts == {"jpe", ""}

InitUnsupported == InitWith(UnsupportedExts, SampleFiles)

SpecUnsupported == InitUnsupported /\ [][Next]_vars

\* C17: a path with an unsupported or missing extension is rejected:
\* from_path gives None for it, and a run of process_image on it ends with
\* an error and changes no file.
C17_UnsupportedRejected ==
    /\ from_path(path[2]) = NoKind
    /\ pc # "idle" => fs = startFs
    /\ pc = "done" => result.error # ""

\* ================================================= ai/mod.rs: response parsing
\* A response text is modelled by its syntactic form and by the JSON value of
\* each key of the object it holds.  form: "plain" the object alone, "fenced"
\* the object inside a markdown code fence, "trailing_comma" the object with
\* a comma before a closing brace, "text" no JSON object at all.  A string or
\* array key holds "null", a value of the expected type ("str", "arr",
\* "empty_arr") or of another type ("num", "str" for an array key).
GpsValues ==
    {[kind |-> "null", has_latitude |-> FALSE, latitude |-> 0, longitude |-> 0],
     [kind |-> "str", has_latitude |-> FALSE, latitude |-> 0, longitude |-> 0]}
    \cup {[kind |-> "obj", has_latitude |-> h, latitude |-> la,
           longitude |-> lo] :
            h \in BOOLEAN, la \in {0, 48}, lo \in {0, 2}}

ResponseTexts ==
    [form : {"plain", "fenced", "trailing_comma", "text"},
     title : {"null", "str", "num"},
     description : {"null", "str"},
     tags : {"null", "arr", "empty_arr", "str"},
     subject : {"null", "arr"},
     gps : GpsValues]

\* Option<GpsCoords>: the empty sequence is None
GpsNone == <<>>
GpsSome(lat, lon) == <<[latitude |-> lat, longitude |-> lon]>>

ParseErr == [ok |-> FALSE, title |-> None, description |-> None,
             tags |-> None, subject |-> None, gps |-> GpsNone]

\* serde_json::from_str::<AiResult>: every key must be null (or missing) or
\* of the declared type; GpsCoords needs both of its fields
schema_ok(t) ==
    /\ t.title \in {"null", "str"}
    /\ t.description \in {"null", "str"}
    /\ t.tags \in {"null", "arr", "empty_arr"}
    /\ t.subject \in {"null", "arr"}
    /\ t.gps.kind = "null" \/ (t.gps.kind = "obj" /\ t.gps.has_latitude)

from_str(t) ==
    [ok |-> TRUE,
     title |-> IF t.title = "str" THEN AiVal ELSE None,
     description |-> IF t.description = "str" THEN AiVal ELSE None,
     tags |-> CASE t.tags = "arr" -> AiVal
                [] t.tags = "empty_arr" -> "empty"
                [] OTHER -> None,
     subject |-> IF t.subject = "arr" THEN AiVal ELSE None,
     gps |-> IF t.gps.kind = "obj"
             THEN GpsSome(t.gps.latitude, t.gps.longitude) ELSE GpsNone]

\* value_to_ai_result (ai/mod.rs 301-340): keys of the right type are taken,
\* empty lists and the coordinates (0, 0) are dropped, and a value without
\* any usable key gives None
value_to_ai_result(t) ==
    LET gps == IF t.gps.kind = "obj" /\ t.gps.has_latitude
                  /\ (t.gps.latitude # 0 \/ t.gps.longitude # 0)
               THEN GpsSome(t.gps.latitude, t.gps.longitude) ELSE GpsNone
        found_any == \/ t.title = "str" \/ t.description = "str"
                     \/ t.tags = "arr" \/ t.subject = "arr" \/ gps # GpsNone
    IN IF found_any
       THEN [ok |-> TRUE,
             title |-> IF t.title = "str" THEN AiVal ELSE None,
             description |-> IF t.description = "str" THEN AiVal ELSE None,
             tags |-> IF t.tags = "arr" THEN AiVal ELSE None,
             subject |-> IF t.subject = "arr" THEN AiVal ELSE None,
             gps |-> gps]
       ELSE ParseErr

\* parse_ai_response (ai/mod.rs 108-147): the first candidate that
\* deserializes as AiResult, directly or after fix_trailing_commas, is
\* returned as it is; otherwise the first candidate, if it is valid JSON,
\* goes through value_to_ai_result
parse_ai_response(t) ==
    CASE t.form = "text" -> ParseErr
      [] schema_ok(t) -> from_str(t)
      [] t.form = "trailing_comma" -> ParseErr
      [] OTHER -> value_to_ai_result(t)

\* ------------------------------------------------ the parsing specification
InitParse ==
    /\ input \in ResponseTexts
    /\ output = NoValue
    /\ HookInit
    /\ GuiInit
    /\ path = ImagePath("jpg")
    /\ fs = InitFs(ImagePath("jpg"), BareFile)
    /\ startFs = InitFs(ImagePath("jpg"), BareFile)
    /\ file0 = BareFile
    /\ pc = "call"
    /\ cfg = NoCfg
    /\ chain = 0
    /\ called = <<>>
    /\ existing = DefaultExifData
    /\ ai = NoAi
    /\ fields = AllOff
    /\ result = InitResult
    /\ warned = FALSE

ParseResponse ==
    /\ pc = "call"
    /\ output' = parse_ai_response(input)
    /\ pc' = "parsed"
    /\ UNCHANGED <<path, fs, file0, startFs, cfg, chain, called, existing, ai,
                   fields, result, warned, input>>
    /\ UNCHANGED hookVars
    /\ UNCHANGED guiVars

NextParse == ParseResponse

SpecParse == InitParse /\ [][NextParse]_vars

\* C18: GPS (0, 0) is treated as absent: whenever parse_ai_response accepts
\* a response whose gps object has latitude 0 and longitude 0, the AiResult
\* it returns has no gps.
C18_GpsZeroIsNone ==
    (pc = "parsed" /\ output.ok /\ input.gps.kind = "obj"
     /\ input.gps.has_latitude
     /\ input.gps.latitude = 0 /\ input.gps.longitude = 0)
        => output.gps = GpsNone

\* ==================================================== batches of two images
\* The loop of the command line tool (cli/main.rs 165-173): process_image on
\* each image of the list in turn.  path is the image being processed, input
\* the images still to come, output the files the run of the image already
\* processed has written, as the end of that run left them.
BatchExts == {"jpg", "heic", "CR3"}

\* Answers of the backend in a batch: none, a full one, a title alone.
BatchResponses == {NoAi, FullAi(None), [NoAi EXCEPT !.title = AiVal]}

\* The files a run of process_image on p may write: the image, its backup
\* and, for the sidecar kind, the .xmp file next to it.
FilesOf(p) ==
    {p, BackupPath(p)}
    \cup (IF write_kind(p) = Sidecar THEN {SidecarPath(p)} ELSE {})

InitBatch ==
    /\ \E a \in BatchExts, b \in BatchExts :
          /\ a # b
          /\ path = ImagePath(a)
          /\ input = <<ImagePath(b)>>
          /\ fs = [q \in PathsOf(ImagePath(a)) \cup PathsOf(ImagePath(b)) |->
                      IF q \in {ImagePath(a), ImagePath(b)} THEN BareFile
                      ELSE NoFile]
          /\ startFs = [q \in PathsOf(ImagePath(a)) \cup PathsOf(ImagePath(b))
                          |-> IF q \in {ImagePath(a), ImagePath(b)}
                              THEN BareFile ELSE NoFile]
    /\ output = NoValue
    /\ HookInit
    /\ GuiInit
    /\ file0 = BareFile
    /\ pc = "idle"
    /\ cfg = NoCfg
    /\ chain = 0
    /\ called = <<>>
    /\ existing = DefaultExifData
    /\ ai = NoAi
    /\ fields = AllOff
    /\ result = InitResult
    /\ warned = FALSE

\* the loop moves on: the run's locals are dropped, the next image is taken
NextImage ==
    /\ pc = "done"
    /\ input # <<>>
    /\ output' = [q \in {f \in FilesOf(path) : fs[f] # startFs[f]} |-> fs[q]]
    /\ path' = Head(input)
    /\ input' = Tail(input)
    /\ file0' = fs[Head(input)]
    /\ pc' = "idle"
    /\ cfg' = NoCfg
    /\ chain' = 0
    /\ called' = <<>>
    /\ existing' = DefaultExifData
    /\ ai' = NoAi
    /\ fields' = AllOff
    /\ result' = InitResult
    /\ warned' = FALSE
    /\ UNCHANGED <<fs, startFs>>
    /\ UNCHANGED hookVars
    /\ UNCHANGED guiVars

NextBatch ==
    \/ StartRun({1})
    \/ ReadExif
    \/ ReadBytes
    \/ CallService(BatchResponses)
    \/ AllFailed
    \/ Backup
    \/ Write({DefaultFields})
    \/ NextImage

SpecBatch == InitBatch /\ [][NextBatch]_vars

\* C19: images are independent: while and after a second image with a
\* different path is processed, every file written for the first image (the
\* image, its .bak, its .xmp sidecar) holds what the first image's own run
\* left in it.
C19_ImagesIndependent ==
    input = <<>> => \A q \in DOMAIN output : fs[q] = output[q]

\* ========================================= the panic hook (writer.rs 93-123)
\* Two calls of write_exif on different JPEG or TIFF files run at the same
\* time; each reaches load_existing_metadata.  The panic hook is the only
\* state they share: std::panic::take_hook and set_hook are each atomic, the
\* sequence of them is not.
\* The hook in place before the calls: the default one or the application's.
InstalledHooks == {"default", "user"}

\* Ok(Ok(m)) with tags, Ok(Ok(m)) without, Ok(Err(e)), Err(panic)
LoadOutcomes == {"tags", "empty", "err", "panic"}

InitHook ==
    /\ hook \in InstalledHooks
    /\ hook0 = hook
    /\ prev_hook = [t \in Threads |-> None]
    /\ hook_pc = [t \in Threads |-> "call"]
    /\ loaded = [t \in Threads |-> None]
    /\ input = NoValue
    /\ output = NoValue
    /\ GuiInit
    /\ path = ImagePath("jpg")
    /\ fs = InitFs(ImagePath("jpg"), BareFile)
    /\ startFs = InitFs(ImagePath("jpg"), BareFile)
    /\ file0 = BareFile
    /\ pc = "lib_read"
    /\ cfg = NoCfg
    /\ chain = 0
    /\ called = <<>>
    /\ existing = DefaultExifData
    /\ ai = NoAi
    /\ fields = AllOff
    /\ result = InitResult
    /\ warned = FALSE

pipelineVars == <<path, fs, file0, startFs, pc, cfg, chain, called, existing,
                  ai, fields, result, warned, input, output>>

\* let prev_hook = std::panic::take_hook(): the default hook is left behind
take_hook(t) ==
    /\ hook_pc[t] = "call"
    /\ prev_hook' = [prev_hook EXCEPT ![t] = hook]
    /\ hook' = "default"
    /\ hook_pc' = [hook_pc EXCEPT ![t] = "taken"]
    /\ UNCHANGED <<hook0, loaded, pipelineVars, guiVars>>

\* std::panic::set_hook(Box::new(|_| {}))
set_hook_silent(t) ==
    /\ hook_pc[t] = "taken"
    /\ hook' = "silent"
    /\ hook_pc' = [hook_pc EXCEPT ![t] = "silenced"]
    /\ UNCHANGED <<hook0, prev_hook, loaded, pipelineVars, guiVars>>

\* std::panic::catch_unwind(move || Metadata::new_from_path(&path_owned))
catch_unwind(t) ==
    /\ hook_pc[t] = "silenced"
    /\ \E o \in LoadOutcomes : loaded' = [loaded EXCEPT ![t] = o]
    /\ hook_pc' = [hook_pc EXCEPT ![t] = "loaded"]
    /\ UNCHANGED <<hook, hook0, prev_hook, pipelineVars, guiVars>>

\* std::panic::set_hook(prev_hook), then the match on the result
set_hook_prev(t) ==
    /\ hook_pc[t] = "loaded"
    /\ hook' = prev_hook[t]
    /\ hook_pc' = [hook_pc EXCEPT ![t] = "done"]
    /\ UNCHANGED <<hook0, prev_hook, loaded, pipelineVars, guiVars>>

NextHook ==
    \E t \in Threads :
        \/ take_hook(t)
        \/ set_hook_silent(t)
        \/ catch_unwind(t)
        \/ set_hook_prev(t)

SpecHook == InitHook /\ [][NextHook]_vars

\* C20: the calls share no mutable state: whenever two concurrent write_exif
\* calls on different files have both returned, the process-wide state is
\* what it was before them; the panic hook installed before the calls is the
\* installed hook afterwards.
C20_PanicHookRestored ==
    (\A t \in Threads : hook_pc[t] = "done") => hook = hook0

\* C21: in PNG and WebP, when the file already holds an XMP packet, a
\* successful write keeps every property of that packet that the write does
\* not itself set: the foreign properties, and the title, headline,
\* description and subject when they are not written.
C21_XmpPacketMerged ==
    (pc = "lib_done" /\ result.error = "" /\ ~cfg.dry_run
     /\ from_path(path[2]) \in {Png, WebP} /\ file0.xmp.present)
        => LET old == file0.xmp
               new == fs[path].xmp
           IN /\ new.present
              /\ new.other = old.other
              /\ ~result.title_written =>
                    new.title = old.title /\ new.headline = old.headline
              /\ ~result.description_written =>
                    new.description = old.description
              /\ ~result.tags_written => new.subject = old.subject

\* C22: a UserComment whose charset prefix is neither ASCII nor UNICODE is
\* treated as absent: for such a file without XPComment read_exif returns no
\* description, and a following successful write without overwrite_existing
\* that has an AI description to write reports it written.
C22_UnknownPrefixIsAbsent ==
    (pc \in {"lib_read", "lib_done"} /\ file0.state = "ok"
     /\ file0.exif.present /\ file0.exif.wellFormed
     /\ file0.exif.userComment = "junk" /\ file0.exif.xpComment = None)
        => /\ existing.description = None
           /\ (pc = "lib_done" /\ result.error = ""
               /\ fields.write_description /\ ai.description # None)
                  => result.description_written

\* C23: every IFD the raw injection writes (the rebuilt IFD0, ExifIFD and GPS
\* IFD) has its entries in ascending order of tag id, the original IFDs
\* being sorted.
C23_RebuiltIfdsSorted ==
    (pc = "lib_done" /\ output # input)
        => LET sorted(ifd) ==
                   \A i \in 1..Len(ifd), j \in 1..Len(ifd) :
                       i < j => ifd[i].tag <= ifd[j].tag
           IN /\ sorted(output.ifd0)
              /\ sorted(output.ifds["exif_new"])
              /\ sorted(output.ifds["gps_new"])

\* C24: after raw injection the cross-references follow the relocated IFDs:
\* the header names the appended IFD0; if an ExifIFD was rebuilt, entry
\* 0x8769 of the new IFD0 holds its start; if a GPS IFD was rebuilt or
\* created, the new IFD0 has exactly one entry 0x8825 and it holds the new
\* GPS IFD's start; every sub-IFD offset of the new IFD0 is a place of the
\* output stream.
C24_PointersFollowIfds ==
    (pc = "lib_done" /\ output # input)
        => LET ifd0 == output.ifd0
               at(tag) == {i \in 1..Len(ifd0) : ifd0[i].tag = tag}
           IN /\ output.header = "ifd0_new"
              /\ output.ifds["exif_new"] # <<>> =>
                    \E i \in at(TAG_EXIF_IFD) :
                        /\ ifd0[i].value = "exif_new"
                        /\ \A j \in at(TAG_EXIF_IFD) : i <= j
              /\ output.ifds["gps_new"] # <<>> =>
                    /\ Cardinality(at(TAG_GPS_IFD)) = 1
                    /\ \A i \in at(TAG_GPS_IFD) : ifd0[i].value = "gps_new"
              /\ \A i \in at(TAG_EXIF_IFD) \cup at(TAG_GPS_IFD) :
                    ifd0[i].value \in DOMAIN output.ifds

C24_Witness ==
    /\ pc = "lib_done"
    /\ ~contains(input.ifd0, TAG_GPS_IFD)
    /\ contains(input.ifd0, TAG_EXIF_IFD)
    /\ output.header = "ifd0_new"
    /\ output.ifds["exif_new"] # <<>>
    /\ output.ifds["gps_new"] # <<>>
    /\ output.ifd0[Len(output.ifd0)] = RawIfdEntry(TAG_GPS_IFD, "gps_new")

\* ===================================== raw injection: bytes of the GPS IFD
\* Byte-level model of the entries inject_ai_tags_into_tiff appends for new
\* coordinates.  A coordinate is a whole number of arc seconds, so that the
\* split into degrees, minutes and seconds is exact.
\* u32::to_le_bytes
to_le_bytes(v) ==
    <<v % 256, (v \div 256) % 256, (v \div 65536) % 256,
      (v \div 16777216) % 256>>

\* u32::to_be_bytes
to_be_bytes(v) ==
    <<(v \div 16777216) % 256, (v \div 65536) % 256, (v \div 256) % 256,
      v % 256>>

\* the closures encode_u32 / encode_u16 of inject_ai_tags_into_tiff
\* (writer.rs 1093-1098)
encode_u32(val, big_endian) ==
    IF big_endian THEN to_be_bytes(val) ELSE to_le_bytes(val)

encode_u16(val, big_endian) ==
    IF big_endian THEN <<(val \div 256) % 256, val % 256>>
    ELSE <<val % 256, (val \div 256) % 256>>

\* encode_gps_rational (writer.rs 80-89)
encode_gps_rational(degrees, minutes, seconds_num, seconds_den) ==
    to_le_bytes(degrees) \o to_le_bytes(1) \o to_le_bytes(minutes)
    \o to_le_bytes(1) \o to_le_bytes(seconds_num) \o to_le_bytes(seconds_den)

abs(n) == IF n < 0 THEN 0 - n ELSE n

\* make_raw_gps_entries (writer.rs 1419-1488) for a coordinate pair in arc
\* seconds: tag, format, count, inline value and extra data of each entry
gps_raw_entries(lat, lon) ==
    LET dms(c) == encode_gps_rational(abs(c) \div 3600, (abs(c) % 3600) \div 60,
                                      (abs(c) % 60) * 10000, 10000)
        ref(c, pos, neg) == <<IF c >= 0 THEN pos ELSE neg, 0, 0, 0>>
    IN <<[tag_id |-> TAG_GPS_LATITUDE_REF, data_format |-> 2, count |-> 2,
          inline_value |-> ref(lat, 78, 83), extra_data |-> <<>>],
         [tag_id |-> TAG_GPS_LATITUDE, data_format |-> 5, count |-> 3,
          inline_value |-> <<0, 0, 0, 0>>, extra_data |-> dms(lat)],
         [tag_id |-> TAG_GPS_LONGITUDE_REF, data_format |-> 2, count |-> 2,
          inline_value |-> ref(lon, 69, 87), extra_data |-> <<>>],
         [tag_id |-> TAG_GPS_LONGITUDE, data_format |-> 5, count |-> 3,
          inline_value |-> <<0, 0, 0, 0>>, extra_data |-> dms(lon)]>>

\* writer.rs 1261-1279: the 12 bytes of each new GPS entry and the data
\* appended for it, the first blob going to offset data_off
RECURSIVE raw_gps(_, _, _)
raw_gps(entries, data_off, big_endian) ==
    IF entries = <<>> THEN <<>>
    ELSE LET entry == Head(entries)
             ib == encode_u16(entry.tag_id, big_endian)
                   \o encode_u16(entry.data_format, big_endian)
                   \o encode_u32(entry.count, big_endian)
                   \o (IF entry.extra_data # <<>>
                       THEN encode_u32(data_off, big_endian)
                       ELSE entry.inline_value)
         IN <<[ib |-> ib, at |-> data_off, extra |-> entry.extra_data]>>
            \o raw_gps(Tail(entries), data_off + Len(entry.extra_data),
                       big_endian)

\* ------------------------------------------------ the GPS bytes specification
\* Coordinates in arc seconds: Paris, San Francisco, Sydney and the borders.
Latitudes == {175889, 135989, 0 - 121928, 0 - 1, 323999, 60}
Longitudes == {8461, 0 - 440710, 544354, 0 - 647999, 3600}

\* result.len() when the GPS blobs are appended
DataOffsets == {218, 70000}

InitGps ==
    /\ input \in [big_endian : BOOLEAN, latitude : Latitudes,
                  longitude : Longitudes, data_off : DataOffsets]
    /\ output = NoValue
    /\ HookInit
    /\ GuiInit
    /\ path = ImagePath("jpg")
    /\ fs = InitFs(ImagePath("jpg"), BareFile)
    /\ startFs = InitFs(ImagePath("jpg"), BareFile)
    /\ file0 = BareFile
    /\ pc = "lib_read"
    /\ cfg = NoCfg
    /\ chain = 0
    /\ called = <<>>
    /\ existing = DefaultExifData
    /\ ai = NoAi
    /\ fields = AllOff
    /\ result = InitResult
    /\ warned = FALSE

EncodeGps ==
    /\ pc = "lib_read"
    /\ output' = raw_gps(gps_raw_entries(input.latitude, input.longitude),
                         input.data_off, input.big_endian)
    /\ pc' = "lib_done"
    /\ UNCHANGED <<path, fs, file0, startFs, cfg, chain, called, existing, ai,
                   fields, result, warned, input>>
    /\ UNCHANGED hookVars
    /\ UNCHANGED guiVars

NextGps == EncodeGps

SpecGps == InitGps /\ [][NextGps]_vars

\* C25: raw injection never changes endianness: every new GPS entry has its
\* tag, format, count and data offset in the byte order of the stream's
\* header, and so are the numerators and denominators of the latitude and
\* longitude RATIONALs, which therefore decode to the requested degrees,
\* minutes and seconds.
C25_StreamByteOrderKept ==
    pc = "lib_done" =>
        LET be == input.big_endian
            dms(c) == <<abs(c) \div 3600, 1, (abs(c) % 3600) \div 60, 1,
                        (abs(c) % 60) * 10000, 10000>>
            in_order(e, c) ==
                \A k \in 1..6 :
                    SubSeq(e.extra, 4 * k - 3, 4 * k) = encode_u32(dms(c)[k], be)
        IN /\ \A i \in 1..4 :
                 /\ SubSeq(output[i].ib, 1, 2) = encode_u16(i, be)
                 /\ SubSeq(output[i].ib, 3, 4)
                        = encode_u16(IF i \in {1, 3} THEN 2 ELSE 5, be)
                 /\ SubSeq(output[i].ib, 5, 8)
                        = encode_u32(IF i \in {1, 3} THEN 2 ELSE 3, be)
                 /\ output[i].extra # <<>> =>
                        SubSeq(output[i].ib, 9, 12)
                            = encode_u32(output[i].at, be)
           /\ in_order(output[2], input.latitude)
           /\ in_order(output[4], input.longitude)

\* ============================== XMP merge: the text of the packet
\* An existing packet with one rdf:Description element is modelled by what
\* inject_into_existing_xmp looks for in its text.  about: how the element
\* spells rdf:about ("dq_empty": rdf:about="", "sq_empty": rdf:about='',
\* "dq_uri": rdf:about="uuid:...", "absent": no such attribute); closing:
\* whether the element has an end tag or is self-closing; ns_dc and
\* ns_photoshop: whether the text holds xmlns:dc= and xmlns:photoshop=; and
\* the dc: and photoshop: elements it holds.
XmpPackets ==
    {x \in [about : {"dq_empty", "sq_empty", "dq_uri", "absent"},
            closing : {"end_tag", "self_closing"},
            ns_dc : BOOLEAN, ns_photoshop : BOOLEAN,
            dc_title : {None, Orig}, headline : {None, Orig},
            dc_description : {None}, dc_subject : {None, Orig}] :
        /\ (x.dc_title # None \/ x.dc_subject # None) => x.ns_dc
        /\ x.headline # None => x.ns_photoshop
        /\ x.closing = "self_closing" =>
              x.dc_title = None /\ x.headline = None /\ x.dc_subject = None}

\* writer.rs 683-696: a missing declaration is inserted after the text
\* rdf:about="" when the packet holds that text
ensure_namespaces(x) ==
    [x EXCEPT !.ns_dc = @ \/ x.about = "dq_empty",
              !.ns_photoshop = @ \/ x.about = "dq_empty"]

\* writer.rs 698-726: a self-closing rdf:Description is opened and closed
open_description(x) == [x EXCEPT !.closing = "end_tag"]

\* writer.rs 728-760: the given elements replace their namesakes before the
\* end tag
insert_elements(x, t, d, kw) ==
    [x EXCEPT !.dc_title = IF t # None THEN t ELSE @,
              !.headline = IF t # None THEN t ELSE @,
              !.dc_description = IF d # None THEN d ELSE @,
              !.dc_subject = IF kw # None THEN join(kw) ELSE @]

\* inject_into_existing_xmp (writer.rs 674-762) on the text of the packet
inject_into_packet(x, t, d, kw) ==
    insert_elements(open_description(ensure_namespaces(x)), t, d, kw)

\* ------------------------------------------------ the XMP merge specification
InitXmp ==
    /\ input \in XmpPackets
    /\ output = NoValue
    /\ HookInit
    /\ GuiInit
    /\ path = ImagePath("jpg")
    /\ fs = InitFs(ImagePath("jpg"), BareFile)
    /\ startFs = InitFs(ImagePath("jpg"), BareFile)
    /\ file0 = BareFile
    /\ pc = "lib_read"
    /\ cfg = NoCfg
    /\ chain = 0
    /\ called = <<>>
    /\ existing = DefaultExifData
    /\ ai = NoAi
    /\ fields = AllOff
    /\ result = InitResult
    /\ warned = FALSE

\* update_xmp_metadata reaches build_xmp(Some(xmp), ..) only with a field to
\* write (writer.rs 582-584)
MergeXmp ==
    /\ pc = "lib_read"
    /\ \E r \in AiPresence :
          /\ r.title # None \/ r.description # None \/ r.tags # None
          /\ r.subject = None /\ r.gps = None
          /\ ai' = r
          /\ output' = inject_into_packet(input, r.title, r.description,
                                          r.tags)
    /\ pc' = "lib_done"
    /\ UNCHANGED <<path, fs, file0, startFs, cfg, chain, called, existing,
                   fields, result, warned, input>>
    /\ UNCHANGED hookVars
    /\ UNCHANGED guiVars

NextXmp == MergeXmp

SpecXmp == InitXmp /\ [][NextXmp]_vars

\* C26: the XMP merge declares the namespaces it uses: for every existing
\* packet with an rdf:Description element, however it spells rdf:about, the
\* merged packet declares xmlns:dc if it holds a dc: element and
\* xmlns:photoshop if it holds a photoshop: element.
C26_NamespacesDeclared ==
    pc = "lib_done" =>
        /\ (output.dc_title # None \/ output.dc_description # None
            \/ output.dc_subject # None) => output.ns_dc
        /\ output.headline # None => output.ns_photoshop

\* ======================================== IPTC merge: bytes of the APP13 block
MaxResources == 2

\* b"Photoshop 3.0\0" and b"8BIM"
IPTC_HEADER == <<80, 104, 111, 116, 111, 115, 104, 111, 112, 32, 51, 46, 48, 0>>
IPTC_8BIM == <<56, 66, 73, 77>>

\* u16::to_be_bytes
u16_be(v) == <<(v \div 256) % 256, v % 256>>

\* n bytes of payload
Fill(n, b) == [i \in 1..n |-> b]

\* A well-formed 8BIM resource: signature, id, pascal-string name padded to
\* an even size, data length, data padded to an even size.
Resource(id, name_len, data_len) ==
    IPTC_8BIM \o u16_be(id) \o <<name_len>> \o Fill(name_len, 110)
    \o (IF (name_len + 1) % 2 = 0 THEN <<>> ELSE <<0>>)
    \o to_be_bytes(data_len) \o Fill(data_len, 100 + (id % 100))
    \o (IF data_len % 2 = 0 THEN <<>> ELSE <<0>>)

\* 0x0404 IPTC-IIM, 0x03ED resolution info, 0x0425 caption digest
ResourceShapes ==
    [id : {1028, 1005, 1061}, name_len : {0, 1, 2}, data_len : {0, 1, 2}]

RECURSIVE Concat(_)
Concat(ss) == IF ss = <<>> THEN <<>> ELSE Head(ss) \o Concat(Tail(ss))

resource_bytes(shapes) ==
    Concat([i \in 1..Len(shapes) |->
               Resource(shapes[i].id, shapes[i].name_len, shapes[i].data_len)])

RECURSIVE SeqsUpTo(_, _)
SeqsUpTo(S, n) ==
    IF n = 0 THEN {<<>>}
    ELSE SeqsUpTo(S, n - 1)
         \cup {Append(s, x) : s \in {t \in SeqsUpTo(S, n - 1) : Len(t) = n - 1},
                              x \in S}

\* A pascal string taken to be padded by one byte whatever its length.
pascal_padded_by_one(pascal_len) == pascal_len + 1

\* writer.rs 876: 1 length byte + the name, padded to an even size
pascal_padded(pascal_len) ==
    IF (pascal_len + 1) % 2 = 0 THEN pascal_len + 1 ELSE pascal_len + 2

\* writer.rs 869-897: the walk over the resources of the existing block from
\* byte offset pos on; every resource but 0x0404 is copied
RECURSIVE copy_resources(_, _)
copy_resources(data, pos) ==
    IF ~(pos + 12 <= Len(data)) THEN <<>>
    ELSE IF SubSeq(data, pos + 1, pos + 4) # IPTC_8BIM THEN <<>>
    ELSE LET resource_id == data[pos + 5] * 256 + data[pos + 6]
             pascal_len == data[pos + 7]
             data_start == pos + 6 + pascal_padded(pascal_len)
         IN IF data_start + 4 > Len(data) THEN <<>>
            ELSE LET data_len == data[data_start + 1] * 16777216
                                 + data[data_start + 2] * 65536
                                 + data[data_start + 3] * 256
                                 + data[data_start + 4]
                     resource_end == data_start + 4 + data_len
                     resource_end_padded ==
                         IF data_len % 2 = 0 THEN resource_end
                         ELSE resource_end + 1
                     end == Min(resource_end_padded, Len(data))
                 IN (IF resource_id # 1028 THEN SubSeq(data, pos + 1, end)
                     ELSE <<>>)
                    \o copy_resources(data, resource_end_padded)

\* One IIM record of dataset ds: marker, record 2, dataset, length, bytes
iim_record(ds, bytes) == <<28, 2, ds>> \o u16_be(Len(bytes)) \o bytes

\* writer.rs 898-932: record version 2:0, then the title record 2:5, one
\* keyword record 2:25 per keyword and the caption record 2:120 (t and d are
\* the texts' bytes, <<>> for an absent one; kw is the sequence of keywords)
iptc_data(t, d, kw) ==
    <<28, 2, 0, 0, 2, 0, 2>>
    \o (IF t = <<>> THEN <<>> ELSE iim_record(5, t))
    \o Concat([i \in 1..Len(kw) |-> iim_record(25, kw[i])])
    \o (IF d = <<>> THEN <<>> ELSE iim_record(120, d))

\* writer.rs 934-945: the IPTC-IIM data as 8BIM resource 0x0404
iim_resource(iim) ==
    IPTC_8BIM \o u16_be(1028) \o <<0, 0>> \o to_be_bytes(Len(iim)) \o iim
    \o (IF Len(iim) % 2 # 0 THEN <<0>> ELSE <<>>)

\* build_iptc_contents (writer.rs 856-945) with Some(existing)
build_iptc_bytes(data, t, d, kw) ==
    IPTC_HEADER \o copy_resources(data, Len(IPTC_HEADER))
    \o iim_resource(iptc_data(t, d, kw))

\* ------------------------------------------------ the IPTC merge specification
\* input: the resources of the existing block; the block is their bytes after
\* the header.
TitleBytes == {<<>>, <<65>>, <<65, 105>>}
CaptionBytes == {<<>>, <<67>>}
KeywordLists == {<<>>, <<<<75>>, <<75, 119>>>>}

InitIptc ==
    /\ input \in SeqsUpTo(ResourceShapes, MaxResources)
    /\ output = NoValue
    /\ HookInit
    /\ GuiInit
    /\ path = ImagePath("jpg")
    /\ fs = InitFs(ImagePath("jpg"), BareFile)
    /\ startFs = InitFs(ImagePath("jpg"), BareFile)
    /\ file0 = BareFile
    /\ pc = "lib_read"
    /\ cfg = NoCfg
    /\ chain = 0
    /\ called = <<>>
    /\ existing = DefaultExifData
    /\ ai = NoAi
    /\ fields = AllOff
    /\ result = InitResult
    /\ warned = FALSE

BuildIptc ==
    /\ pc = "lib_read"
    /\ \E t \in TitleBytes, d \in CaptionBytes, kw \in KeywordLists :
          \* update_iptc_metadata (writer.rs 820-822) returns before the
          \* merge when there is nothing to write
          /\ <<t, d, kw>> # <<<<>>, <<>>, <<>>>>
          /\ called' = <<t, d, kw>>
          /\ output' = build_iptc_bytes(IPTC_HEADER \o resource_bytes(input),
                                        t, d, kw)
    /\ pc' = "lib_done"
    /\ UNCHANGED <<path, fs, file0, startFs, cfg, chain, existing, ai, fields,
                   result, warned, input>>
    /\ UNCHANGED hookVars
    /\ UNCHANGED guiVars

NextIptc == BuildIptc

SpecIptc == InitIptc /\ [][NextIptc]_vars

\* C27: the IPTC merge preserves foreign resources: the output of
\* build_iptc_contents is the header, then every 8BIM resource of the
\* existing block whose id is not 0x0404, byte for byte (signature, id, name,
\* length, data, padding) and in the original order, then exactly one 0x0404
\* resource.
C27_ForeignResourcesKept ==
    pc = "lib_done" =>
        LET foreign == SelectSeq(input, LAMBDA r : r.id # 1028)
            kept == IPTC_HEADER \o resource_bytes(foreign)
            rest == SubSeq(output, Len(kept) + 1, Len(output))
        IN /\ Len(output) > Len(kept)
           /\ SubSeq(output, 1, Len(kept)) = kept
           /\ SubSeq(rest, 1, 6) = IPTC_8BIM \o u16_be(1028)
           /\ rest = iim_resource(SubSeq(rest, 13,
                   12 + Len(iptc_data(called[1], called[2], called[3]))))

C27_Witness ==
    /\ pc = "lib_done"
    /\ Len(input) = 2
    /\ input[1] = [id |-> 1028, name_len |-> 1, data_len |-> 1]
    /\ input[2] = [id |-> 1005, name_len |-> 2, data_len |-> 1]
    /\ called = <<<<65>>, <<>>, <<>>>>
    /\ Len(output) = 14 + 16 + 26

\* C28: the written flags of a successful write that is not a dry run are
\* truthful for every container kind: a flag that is true means that the AI
\* value is stored, in one of its places, in the image file or in the sidecar
\* file written by the call.
C28_WrittenFlagsTruthful ==
    (pc = "lib_done" /\ result.error = "" /\ ~cfg.dry_run)
        => \E out \in {fs[path], fs[SidecarPath(path)]} :
              /\ result.title_written =>
                    \/ out.exif.imageDescription = ai.title
                    \/ out.exif.xpTitle = ai.title
                    \/ out.xmp.title = ai.title
                    \/ out.iptc.objectName = ai.title
              /\ result.description_written =>
                    \/ out.exif.userComment = ai.description
                    \/ out.exif.xpComment = ai.description
                    \/ out.xmp.description = ai.description
                    \/ out.iptc.caption = ai.description
              /\ result.tags_written =>
                    \/ out.exif.xpKeywords = join(ai.tags)
                    \/ out.xmp.subject = join(ai.tags)
                    \/ out.iptc.keywords = ai.tags
              /\ result.subject_written =>
                    out.exif.xpSubject = join(ai.subject)
              /\ result.gps_written => ai.gps \in out.exif.gps

\* C29: raw injection never duplicates a tag: when no IFD of the input holds
\* two entries with the same tag id, no rebuilt IFD of the output (IFD0,
\* ExifIFD, GPS IFD) holds two entries with the same tag id.
C29_NoDuplicateTags ==
    LET distinct(ifd) ==
            \A i, j \in 1..Len(ifd) : ifd[i].tag = ifd[j].tag => i = j
    IN (/\ pc = "lib_done"
        /\ output # input
        /\ distinct(input.ifd0)
        /\ distinct(input.ifds["exif_old"])
        /\ distinct(input.ifds["gps_old"]))
           => /\ distinct(output.ifd0)
              /\ distinct(output.ifds["exif_new"])
              /\ distinct(output.ifds["gps_new"])

\* ============================================== the GUI: background tasks
\* The most background tasks one session spawns.
MaxTasks == 3

\* BgMessage; path and task say which image a ProcessResult is for and which
\* task sent it.
BgMessage(type, p, k) == [type |-> type, path |-> p, task |-> k]

\* self.images.iter().map(|e| e.path.clone()).collect()
paths == [i \in 1..Cardinality(Images) |-> i]

\* self.rt.spawn(async move { .. })
spawn(kind, first, todo) ==
    Append(tasks, [kind |-> kind, pc |-> first, todo |-> todo])

\* tx.send(msg)
send(msg) == Append(rx, msg)

running(k) == tasks[k].pc # "finished"

\* gui/main.rs 160-198, the UI side: the click on "Process"
start_processing ==
    /\ ~(Images = {} \/ processing)
    /\ Len(tasks) < MaxTasks
    /\ processing' = TRUE
    /\ images' = [i \in Images |-> None]
    /\ tasks' = spawn("batch", "build", paths)
    /\ UNCHANGED <<rx, pipelineVars, hookVars>>

\* gui/main.rs 200-229, the UI side: the click on "Download model"
start_download ==
    /\ ~processing
    /\ Len(tasks) < MaxTasks
    /\ processing' = TRUE
    /\ tasks' = spawn("download", "download", <<>>)
    /\ UNCHANGED <<rx, images, pipelineVars, hookVars>>

\* gui/main.rs 177-189, in the task: Pipeline::builder()...build(); a failure
\* sends Error
build_pipeline(k) ==
    /\ tasks[k].pc = "build"
    /\ \/ /\ tasks' = [tasks EXCEPT ![k].pc = "loop"]
          /\ UNCHANGED rx
       \/ /\ rx' = send(BgMessage("Error", 0, k))
          /\ tasks' = [tasks EXCEPT ![k].pc = "batch_done"]
    /\ UNCHANGED <<processing, images, pipelineVars, hookVars>>

\* gui/main.rs 191-194, in the task: one image is processed and its result
\* sent
process_image(k) ==
    /\ tasks[k].pc = "loop"
    /\ tasks[k].todo # <<>>
    /\ rx' = send(BgMessage("ProcessResult", Head(tasks[k].todo), k))
    /\ tasks' = [tasks EXCEPT ![k].todo = Tail(@)]
    /\ UNCHANGED <<processing, images, pipelineVars, hookVars>>

\* gui/main.rs 208-225, in the task: download_model ends and its outcome is
\* sent
download_model(k) ==
    /\ tasks[k].pc = "download"
    /\ \E type \in {"DownloadStatus", "Error"} :
          rx' = send(BgMessage(type, 0, k))
    /\ tasks' = [tasks EXCEPT ![k].pc = "batch_done"]
    /\ UNCHANGED <<processing, images, pipelineVars, hookVars>>

\* gui/main.rs 186, 195 and 226, in the task: the last send, after which the
\* task ends
send_batch_done(k) ==
    /\ \/ tasks[k].pc = "batch_done"
       \/ tasks[k].pc = "loop" /\ tasks[k].todo = <<>>
    /\ rx' = send(BgMessage("BatchDone", 0, k))
    /\ tasks' = [tasks EXCEPT ![k].pc = "finished"]
    /\ UNCHANGED <<processing, images, pipelineVars, hookVars>>

\* entry.result after the messages msgs were handled in order
RECURSIVE results_after(_, _)
results_after(entries, msgs) ==
    IF msgs = <<>> THEN entries
    ELSE results_after(
             IF Head(msgs).type = "ProcessResult"
             THEN [entries EXCEPT ![Head(msgs).path] = Head(msgs).task]
             ELSE entries,
             Tail(msgs))

\* gui/main.rs 231-264: while let Ok(msg) = self.rx.try_recv(); every message
\* but a ProcessResult clears the processing flag
poll_messages ==
    /\ rx # <<>>
    /\ rx' = <<>>
    /\ images' = results_after(images, rx)
    /\ processing' =
           IF \E i \in 1..Len(rx) :
                 rx[i].type \in {"BatchDone", "DownloadStatus", "Error"}
           THEN FALSE ELSE processing
    /\ UNCHANGED <<tasks, pipelineVars, hookVars>>

InitGui ==
    /\ GuiInit
    /\ HookInit
    /\ input = NoValue
    /\ output = NoValue
    /\ path = ImagePath("jpg")
    /\ fs = InitFs(ImagePath("jpg"), BareFile)
    /\ startFs = InitFs(ImagePath("jpg"), BareFile)
    /\ file0 = BareFile
    /\ pc = "gui"
    /\ cfg = NoCfg
    /\ chain = 0
    /\ called = <<>>
    /\ existing = DefaultExifData
    /\ ai = NoAi
    /\ fields = AllOff
    /\ result = InitResult
    /\ warned = FALSE

NextGui ==
    \/ start_processing
    \/ start_download
    \/ poll_messages
    \/ \E k \in 1..Len(tasks) : build_pipeline(k)
    \/ \E k \in 1..Len(tasks) : process_image(k)
    \/ \E k \in 1..Len(tasks) : download_model(k)
    \/ \E k \in 1..Len(tasks) : send_batch_done(k)

SpecGui == InitGui /\ [][NextGui]_vars

\* C30: in the GUI the processing flag is true for as long as a background
\* task started by start_processing or start_download is still running or has
\* messages in flight, so that at most one background task runs at a time.
C30_ProcessingWhileBusy ==
    /\ ((\E k \in 1..Len(tasks) : running(k)) \/ rx # <<>>) => processing
    /\ \A j, k \in 1..Len(tasks) : running(j) /\ running(k) => j = k

====
